---- MODULE Spec2Model ----
(***************************************************************************)
(* Port allocation and project registry engine of dev-orchestrator.        *)
(*                                                                         *)
(* One registry file (projects.json) is shared by every handle.  A handle  *)
(* is a core ProjectRegistry object together with the PortManager it       *)
(* constructs; each of the two keeps its OWN lazily loaded copy of the     *)
(* registry document (ProjectRegistry._registry, PortManager._registry).   *)
(***************************************************************************)
EXTENDS Integers, Sequences, FiniteSets, TLC

(***************************************************************************)
(* Port pools.  The source's ranges are 3000-3099 and 8000-8099; the ends  *)
(* are scaled down, the starts are the source's.  The reserved lists are   *)
(* read from the registry document: the defaults below when the document   *)
(* does not give them, otherwise what the file says.                       *)
(***************************************************************************)
FeStart == 3000
FeEnd == 3002
BeStart == 8000
BeEnd == 8001

\* PortAllocation's default reserved lists
DefaultRanges ==
    [fe_reserved |-> {3000}, be_reserved |-> {8501},
     be_start |-> BeStart, be_end |-> BeEnd]
\* reserved lists a registry file may give: the defaults, none at all (the
\* test fixture), a backend port reserved, and a backend list that names a
\* port of the frontend range
Configs ==
    {DefaultRanges,
     [DefaultRanges EXCEPT !.fe_reserved = {}, !.be_reserved = {}],
     [DefaultRanges EXCEPT !.be_reserved = {BeStart, 8501}],
     [DefaultRanges EXCEPT !.be_reserved = {FeStart + 1, 8501}]}

\* a registry file whose backend range lies inside the frontend range
OverlapRanges == [DefaultRanges EXCEPT !.be_start = FeStart + 1, !.be_end = FeEnd]

FeRange == FeStart..FeEnd
BeRange == BeStart..BeEnd
Ports == FeRange \cup BeRange

\* Optional[int] None for a port
NoPort == 0

\* number of ports that an external process may be listening on during a call
MaxBusy == 1
\* the ports probed busy are among the first usable port of each range
BusyPorts == {FeStart + 1, BeStart}
BusySets == {b \in SUBSET BusyPorts : Cardinality(b) <= MaxBusy}

Handles == {"h1", "h2"}

(***************************************************************************)
(* Project names, as the strings callers pass, with their characters.      *)
(***************************************************************************)
ValidNames == {"a", "b"}
Names == ValidNames \cup {"My"}

NameChars(n) ==
    CASE n = "a" -> <<"a">>
      [] n = "b" -> <<"b">>
      [] n = "My" -> <<"M", "y">>
      [] n = "a\n" -> <<"a", "\n">>
      [] n = "" -> <<>>

LowerChars == {"a", "b", "y"}
DigitChars == {"0", "2"}

\* [a-z][a-z0-9-]* on the whole of cs
WholeMatch(cs) ==
    /\ Len(cs) >= 1
    /\ cs[1] \in LowerChars
    /\ \A i \in 2..Len(cs) : cs[i] \in LowerChars \cup DigitChars \cup {"-"}

\* re.match(r'^[a-z][a-z0-9-]*$', name): `$` matches at the end of the
\* string and also just before a newline that ends the string
NameMatches(n) ==
    LET cs == NameChars(n)
    IN \/ WholeMatch(cs)
       \/ /\ Len(cs) >= 2 /\ cs[Len(cs)] = "\n"
          /\ WholeMatch(SubSeq(cs, 1, Len(cs) - 1))

(***************************************************************************)
(* Maps (python dicts) are functions over their key set.                   *)
(***************************************************************************)
EmptyMap == [k \in {} |-> 0]
Put(m, k, v) == [x \in DOMAIN m \cup {k} |-> IF x = k THEN v ELSE m[x]]
Del(m, ks) == [x \in DOMAIN m \ ks |-> m[x]]

\* str(port): the allocated map is keyed by the decimal string of the port
PortKey(p) == ToString(p)
\* int(port_str)
KeyPort(k) == CHOOSE p \in Ports : PortKey(p) = k

(***************************************************************************)
(* Documents                                                               *)
(***************************************************************************)
\* Optional[ServiceConfig]: absent, or present with an Optional[int] port
NoService == [present |-> FALSE, port |-> NoPort, enabled |-> FALSE]
Service(p) == [present |-> TRUE, port |-> p, enabled |-> TRUE]

\* Optional[str] display_name: None, or a string
NoName == "<None>"
\* name.replace("-", " ").title() on the names of the model
Title(n) == CASE n = "a" -> "A" [] n = "b" -> "B" [] OTHER -> n

\* Project.__post_init__: a falsy display_name is derived from the name
PostInit(p) ==
    [p EXCEPT !.display_name = IF @ \in {NoName, ""} THEN Title(p.name) ELSE @]
\* Project.__post_init__ raises ValueError on a name the pattern rejects
PostInitRaises(p) == ~NameMatches(p.name)

\* Settings.default_tags
DefaultTags == {"local"}
\* the tags a caller may give
CallerTags == {"api", "web"}

\* Project(...): to_dict is the class's method unless an instance attribute
\* of that name shadows it
NewProject(n, fe, be, tags) ==
    PostInit([name |-> n, display_name |-> NoName, frontend |-> fe,
              backend |-> be, tags |-> tags, to_dict |-> "method"])

(***************************************************************************)
(* The JSON document of a registry (to_dict / from_dict)                   *)
(***************************************************************************)
\* JSON null where a number, and where a string, may stand
JNull == -1
JNullName == "null"

\* ServiceConfig.to_dict, or None for an absent service
ToDictService(s) ==
    IF s.present
    THEN [null |-> FALSE, port |-> IF s.port = NoPort THEN JNull ELSE s.port,
          enabled |-> s.enabled]
    ELSE [null |-> TRUE, port |-> JNull, enabled |-> FALSE]

\* `if data.get("frontend"): ServiceConfig.from_dict(...)`
FromDictService(j) ==
    IF j.null THEN NoService
    ELSE [Service(IF j.port = JNull THEN NoPort ELSE j.port)
             EXCEPT !.enabled = j.enabled]

\* Project.to_dict
ToDictProject(p) ==
    [name |-> p.name,
     display_name |-> IF p.display_name = NoName THEN JNullName ELSE p.display_name,
     frontend |-> ToDictService(p.frontend),
     backend |-> ToDictService(p.backend),
     tags |-> p.tags]

\* Project.from_dict: cls(...) runs __post_init__ on the loaded values
FromDictProject(j) ==
    PostInit([name |-> j.name,
              display_name |-> IF j.display_name = JNullName THEN NoName
                               ELSE j.display_name,
              frontend |-> FromDictService(j.frontend),
              backend |-> FromDictService(j.backend),
              tags |-> j.tags,
              to_dict |-> "method"])

\* models.ProjectRegistry.to_dict
ToDict(d) ==
    [projects |-> [k \in DOMAIN d.projects |-> ToDictProject(d.projects[k])],
     allocated |-> d.allocated, metadata |-> d.metadata]

\* models.ProjectRegistry.from_dict
FromDict(j) ==
    [projects |-> [k \in DOMAIN j.projects |-> FromDictProject(j.projects[k])],
     allocated |-> j.allocated, metadata |-> j.metadata]

\* proj.to_dict() of a project whose to_dict is not the method raises
\* TypeError
ToDictRaises(d) ==
    \E k \in DOMAIN d.projects : d.projects[k].to_dict # "method"

\* the text of a file opened for writing and never written
EmptyText == [text |-> ""]

DefaultMetadata == [last_modified_by |-> "system", total_projects |-> 0]

\* models.ProjectRegistry(): the default-initialised aggregate
DefaultDoc ==
    [projects |-> EmptyMap, allocated |-> EmptyMap, metadata |-> DefaultMetadata]

NoFile == [exists |-> FALSE, doc |-> ToDict(DefaultDoc)]
\* models.ProjectRegistry.save: `open(path, "w")` empties the file, then
\* json.dump(self.to_dict(), f) writes the document unless to_dict raises
File(d) ==
    [exists |-> TRUE, doc |-> IF ToDictRaises(d) THEN EmptyText ELSE ToDict(d)]

NotLoaded == [loaded |-> FALSE, doc |-> DefaultDoc]
Loaded(d) == [loaded |-> TRUE, doc |-> d]

\* the supervisor's processes: one per project and service
Services == {"frontend", "backend"}
ProcessNames == ValidNames \X Services
\* no process is known to the supervisor
NoProcesses == [n \in ProcessNames |-> "absent"]
\* nothing has been returned yet.
\* found    : the project is in the controller's registry
\* raised   : the call ended with an exception and returned nothing
\* errors   : the `errors` list of an OperationResult, as service -> text
\* ran      : service -> the supervisor commands run for it, with how each
\*            ended
\* frontend, backend, overall : the statuses of a ProjectStatus, or of the
\*            OperationResult
\* filter_tags, projects : the argument and the result of list_projects, or
\*            the name -> overall status pairs of get_all_status
NoRun == [s \in Services |-> <<>>]
\* no get_port_status dict
NoPortStatus ==
    [raised |-> FALSE,
     used_ports |-> [s \in Services |-> {}],
     total |-> [s \in Services |-> 0],
     next_available |-> [s \in Services |-> NoPort],
     utilization |-> [s \in Services |-> 0]]
NoResult ==
    [op |-> "none", name |-> "", found |-> FALSE, raised |-> FALSE,
     diagnostic |-> "", success |-> FALSE, errors |-> EmptyMap, ran |-> NoRun,
     frontend |-> "none", backend |-> "none", overall |-> "none",
     filter_tags |-> [given |-> FALSE, tags |-> {}], projects |-> {},
     port |-> NoPort, port_type |-> "", busy |-> {},
     port_status |-> NoPortStatus]

\* threads that call allocate_ports on one PortManager object
Threads == {"t1", "t2"}
\* the locals of an allocate_ports call: where it is, its arguments, the
\* result dict and the allocated_ports list
NoThreadCall ==
    [pc |-> "idle", name |-> "", need_frontend |-> FALSE, need_backend |-> FALSE,
     frontend |-> NoPort, backend |-> NoPort, allocated_ports |-> {}]

VARIABLES
    disk,     \* the registry file
    reg,      \* handle -> ProjectRegistry._registry of the handle
    pm,       \* handle -> PortManager._registry of the handle's port manager
    last,     \* record of the last call: its inputs, outcome and file writes
    steps,    \* number of calls made so far
    ranges,   \* the reserved lists of port_allocation; no operation changes
              \* them, so every copy of the document holds the same ones
    thr,      \* thread -> the allocate_ports call the thread is running
    log,      \* the steps that the threads' calls have taken, in order
    now,      \* the wall clock, in seconds
    backups,  \* the backup directory: file name -> content
    created,  \* the names of the backup files created so far
    pm2,      \* the supervisor's process table: process name -> status
    res       \* what the last query or process-control call gave its caller

vars ==
    <<disk, reg, pm, last, steps, ranges, thr, log, now, backups, created,
      pm2, res>>

\* port_allocation.frontend_range.reserved, backend_range.reserved
FeReserved == ranges.fe_reserved
BeReserved == ranges.be_reserved

\* models.ProjectRegistry.load raises: json.load on an empty text, or
\* Project.from_dict on a stored name that the pattern rejects
LoadRaises(f) ==
    /\ f.exists
    /\ \/ f.doc = EmptyText
       \/ \E k \in DOMAIN f.doc.projects :
              PostInitRaises([name |-> f.doc.projects[k].name])

\* models.ProjectRegistry.load: a missing file is the default registry
Load(f) == IF f.exists THEN FromDict(f.doc) ELSE DefaultDoc

\* the `registry` properties: the copy held, loaded from the file on first use
RegistryAt(c, f) == IF c.loaded THEN c.doc ELSE Load(f)
RegistryOf(c) == RegistryAt(c, disk)


(***************************************************************************)
(* Port allocator (port_manager.py)                                        *)
(***************************************************************************)
\* is_port_reserved with the reserved lists ignored
IsPortReserved_None(p) == FALSE

\* is_port_reserved looking only at the list of the range the port is in
IsPortReserved_OwnRange(p) ==
    \/ p \in FeRange /\ p \in FeReserved
    \/ p \in BeRange /\ p \in BeReserved

\* PortManager.is_port_reserved: reserved in either range
IsPortReserved(p) == p \in FeReserved \/ p \in BeReserved

\* find_available_port without the `str(port) in allocated` test
RECURSIVE FindAvailablePort_IgnoreAllocated(_, _, _, _)
FindAvailablePort_IgnoreAllocated(port, end, allocated, busy) ==
    IF port > end THEN NoPort
    ELSE IF IsPortReserved(port)
         THEN FindAvailablePort_IgnoreAllocated(port + 1, end, allocated, busy)
    ELSE IF port \in busy
         THEN FindAvailablePort_IgnoreAllocated(port + 1, end, allocated, busy)
    ELSE port

\* PortManager.find_available_port: ascending scan from `port` to `end`;
\* busy is the set of ports on which the connect probe succeeds
RECURSIVE FindAvailablePort(_, _, _, _)
FindAvailablePort(port, end, allocated, busy) ==
    IF port > end THEN NoPort
    ELSE IF IsPortReserved(port) THEN FindAvailablePort(port + 1, end, allocated, busy)
    ELSE IF PortKey(port) \in DOMAIN allocated
         THEN FindAvailablePort(port + 1, end, allocated, busy)
    ELSE IF port \in busy THEN FindAvailablePort(port + 1, end, allocated, busy)
    ELSE port

\* a frontend search that does not look at the allocated map
FindAvailableFrontendPort_IgnoreMap(allocated, busy) ==
    FindAvailablePort(FeStart, FeEnd, EmptyMap, busy)

FindAvailableFrontendPort(allocated, busy) ==
    FindAvailablePort(FeStart, FeEnd, allocated, busy)

FindAvailableBackendPort(allocated, busy) ==
    FindAvailablePort(ranges.be_start, ranges.be_end, allocated, busy)

\* an except-branch that re-raises without popping
Rollback_NoPop(allocated, allocated_ports) == allocated

\* the except-branch of allocate_ports: pop every port of allocated_ports
Rollback(allocated, allocated_ports) ==
    Del(allocated, {PortKey(p) : p \in allocated_ports})

\* a backend search that ignores need_backend
SearchBackend_Always(need_backend) == TRUE

\* whether allocate_ports searches the backend range
SearchBackend(need_backend) == need_backend

\* an allocate_ports that records the frontend port only after the backend
\* search
RecordFrontend_AfterSearch(allocated, fe_port, project_name) == allocated

\* allocate_ports, lines 147-154: the frontend port found is written to the
\* map before the backend search runs
RecordFrontend(allocated, fe_port, project_name) ==
    Put(allocated, PortKey(fe_port), project_name)

\* PortManager.allocate_ports on the in-memory map `allocated`.
\*   ok              : returned (TRUE) or raised PortExhaustedError (FALSE)
\*   allocated_ports : the ports recorded during the call, rolled back or not
\*   busy            : the ports on which the probe succeeded during the call
\*   post            : the map when the call ended
\*   saved           : whether self.save() ran
AllocatePorts(allocated, project_name, need_frontend, need_backend, busy) ==
    LET fe_port == IF need_frontend
                   THEN FindAvailableFrontendPort(allocated, busy) ELSE NoPort
        fe_fail == need_frontend /\ fe_port = NoPort
        mid == IF need_frontend /\ ~fe_fail
               THEN RecordFrontend(allocated, fe_port, project_name) ELSE allocated
        do_be == SearchBackend(need_backend) /\ ~fe_fail
        be_port == IF do_be THEN FindAvailableBackendPort(mid, busy) ELSE NoPort
        be_fail == do_be /\ be_port = NoPort
        end == IF do_be /\ ~be_fail
               THEN Put(mid, PortKey(be_port), project_name) ELSE mid
        allocated_ports == {fe_port, be_port} \ {NoPort}
        ok == ~fe_fail /\ ~be_fail
    IN [called |-> TRUE,
        ok |-> ok,
        need_frontend |-> need_frontend,
        need_backend |-> need_backend,
        frontend |-> IF ok THEN fe_port ELSE NoPort,
        backend |-> IF ok THEN be_port ELSE NoPort,
        allocated_ports |-> allocated_ports,
        busy |-> busy,
        post |-> IF ok THEN end ELSE Rollback(end, allocated_ports),
        saved |-> ok]

NoAllocation ==
    [called |-> FALSE, ok |-> FALSE, need_frontend |-> FALSE,
     need_backend |-> FALSE, frontend |-> NoPort, backend |-> NoPort,
     allocated_ports |-> {}, busy |-> {}, post |-> EmptyMap, saved |-> FALSE]

\* a release that frees the project's frontend-range entries only
PortsToRelease_FrontendOnly(allocated, project_name) ==
    {k \in DOMAIN allocated :
        allocated[k] = project_name /\ KeyPort(k) \in FeRange}

\* PortManager.release_ports: the keys whose value is project_name
PortsToRelease(allocated, project_name) ==
    {k \in DOMAIN allocated : allocated[k] = project_name}

(***************************************************************************)
(* Saving                                                                  *)
(***************************************************************************)
\* ProjectRegistry.save (core): recompute the metadata, then write the copy
Stamp(d, modified_by) ==
    [d EXCEPT !.metadata = [last_modified_by |-> modified_by,
                            total_projects |-> Cardinality(DOMAIN d.projects)]]

\* number of backup files _create_backup keeps (`backups[:-10]`)
KeepBackups == 10

\* strftime("%Y%m%d_%H%M%S"): a fixed-width string of digits, here the two
\* decimal digits of the clock
BackupName(ts) == <<(ts \div 10) % 10, ts % 10>>
\* the order of sorted() on the names: character by character
NameLess(a, b) == a[1] < b[1] \/ (a[1] = b[1] /\ a[2] < b[2])

\* `for old_backup in backups[:-10]: old_backup.unlink()` keeping the first
\* KeepBackups names of the sorted list instead of the last
Prune_KeepOldest(B) ==
    LET keep == {n \in DOMAIN B :
                    Cardinality({m \in DOMAIN B : NameLess(m, n)}) < KeepBackups}
    IN [n \in keep |-> B[n]]

\* `for old_backup in backups[:-10]: old_backup.unlink()`: of the sorted
\* names, all but the last KeepBackups are deleted
Prune(B) ==
    LET keep == {n \in DOMAIN B :
                    Cardinality({m \in DOMAIN B : NameLess(n, m)}) < KeepBackups}
    IN [n \in keep |-> B[n]]

\* ProjectRegistry._create_backup at time ts, f being the registry file
CreateBackup(f, B, ts) ==
    IF ~f.exists THEN B ELSE Prune(Put(B, BackupName(ts), f.doc))

\* the backup made by a ProjectRegistry.save that finds the file f
SaveBackup(f) ==
    /\ backups' = CreateBackup(f, backups, now')
    /\ created' = IF f.exists THEN created \cup {BackupName(now')} ELSE created

\* PortManager.save, and calls that do not save: no backup is made
NoBackup == UNCHANGED <<backups, created>>

(***************************************************************************)
(* The record of the last call                                             *)
(***************************************************************************)
\* what the last record keeps of an allocate_ports call
Summary(A) ==
    [called |-> A.called, ok |-> A.ok, need_frontend |-> A.need_frontend,
     need_backend |-> A.need_backend, frontend |-> A.frontend,
     backend |-> A.backend, allocated_ports |-> A.allocated_ports,
     busy |-> A.busy]

\* a release_ports call that directly follows an allocate_ports call made
\* through the same handle for the same name
FollowsAllocate(op, h, name) ==
    /\ op = "release_ports"
    /\ last.op = "allocate_ports" /\ last.h = h /\ last.name = name

\* follows : the call is a release_ports directly after an allocate_ports of
\*           the same name
\* before  : the port manager's allocated map when the allocate_ports call
\*           (this one, or the one a release follows) began
\* release_ports : the flag of a remove_project call
\* patch   : the key of the patch of an update_project call
Call(op, h, name, outcome, alloc, released, writes) ==
    [op |-> op, h |-> h, name |-> name, outcome |-> outcome,
     alloc |-> Summary(alloc), released |-> released, writes |-> writes,
     follows |-> FollowsAllocate(op, h, name),
     release_ports |-> FALSE,
     patch |-> "",
     before |-> IF op \in {"allocate_ports", "find_available_port"}
                THEN RegistryOf(pm[h]).allocated
                ELSE IF FollowsAllocate(op, h, name) THEN last.before
                ELSE EmptyMap]

NoCall == Call("none", "h1", "", "ok", NoAllocation, {}, <<>>)

Init ==
    /\ disk = NoFile
    /\ reg = [h \in Handles |-> NotLoaded]
    /\ pm = [h \in Handles |-> NotLoaded]
    /\ last = NoCall
    /\ steps = 0
    /\ ranges = DefaultRanges
    /\ thr = [t \in Threads |-> NoThreadCall]
    /\ log = <<>>
    /\ now = 0
    /\ backups = EmptyMap
    /\ created = {}
    /\ pm2 = NoProcesses
    /\ res = NoResult


(***************************************************************************)
(* Inputs                                                                  *)
(***************************************************************************)
\* a start command: None, the empty string, or a command line
NoCmd == "<None>"
Commands == {NoCmd, "", "run"}
\* the commands other than the empty string
PlainCommands == {NoCmd, "run"}
\* python truthiness of a command (`if frontend_command:`)
Truthy(c) == c # NoCmd /\ c # ""

\* update_project patches: a field of Project with a new value, or an
\* unknown key
Patches ==
    {[key |-> "name", value |-> n] : n \in ValidNames}
    \cup {[key |-> "frontend", value |-> NoService],
          [key |-> "bogus", value |-> NoService]}

\* patches that give a field a value the constructor would not have left
\* there: a name the pattern rejects, no display name, other tags
FieldPatches ==
    {[key |-> "name", value |-> "My"],
     [key |-> "display_name", value |-> NoName],
     [key |-> "tags", value |-> {"web"}]}

\* a patch whose key is an attribute of the object and not a field
AttributePatches == {[key |-> "to_dict", value |-> "1"]}

\* the dataclass fields of Project
ProjectFields == {"name", "display_name", "frontend", "backend", "tags"}
\* the names for which hasattr(project, key) holds: the fields and the
\* methods
ProjectAttributes == ProjectFields \cup {"to_dict"}

\* the setattr loop of update_project for a one-key patch
ApplyPatch(project, patch) ==
    IF patch.key \in ProjectAttributes
    THEN CASE patch.key = "name" -> [project EXCEPT !.name = patch.value]
           [] patch.key = "display_name" ->
                  [project EXCEPT !.display_name = patch.value]
           [] patch.key = "frontend" -> [project EXCEPT !.frontend = patch.value]
           [] patch.key = "backend" -> [project EXCEPT !.backend = patch.value]
           [] patch.key = "tags" -> [project EXCEPT !.tags = patch.value]
           [] patch.key = "to_dict" -> [project EXCEPT !.to_dict = patch.value]
    ELSE project

\* `if name in self.registry.projects`, `if not project`
HasProject_Never(R, name) == FALSE

\* `name in self.registry.projects`, `self.get_project(name)` is not None
HasProject(R, name) == name \in DOMAIN R.projects

\* how a ProjectRegistry.save of the document d ends
SaveOutcome(d) == IF ToDictRaises(d) THEN "TypeError" ELSE "ok"
\* the documents that the save has written
Written(d) == IF ToDictRaises(d) THEN <<>> ELSE <<d>>

(***************************************************************************)
(* Handles                                                                 *)
(***************************************************************************)
\* ProjectRegistry.__init__ (get_registry): a fresh handle, nothing loaded
NewHandle(h) ==
    /\ reg' = [reg EXCEPT ![h] = NotLoaded]
    /\ pm' = [pm EXCEPT ![h] = NotLoaded]
    /\ last' = [NoCall EXCEPT !.op = "new", !.h = h]
    /\ NoBackup
    /\ UNCHANGED disk

\* ProjectRegistry.reload: both copies are read again from the file
Reload(h) ==
    /\ reg' = [reg EXCEPT ![h] = Loaded(Load(disk))]
    /\ pm' = [pm EXCEPT ![h] = Loaded(Load(disk))]
    /\ last' = [NoCall EXCEPT !.op = "reload", !.h = h]
    /\ NoBackup
    /\ UNCHANGED disk

(***************************************************************************)
(* Port manager operations called directly                                 *)
(***************************************************************************)
\* allocate_ports with the save moved to a finally-clause: it also runs
\* when the search failed
AllocatePortsOp_SaveAlways(h, name, need_frontend, need_backend, busy) ==
    LET P == RegistryOf(pm[h])
        A == AllocatePorts(P.allocated, name, need_frontend, need_backend, busy)
        P2 == [P EXCEPT !.allocated = A.post]
    IN /\ pm' = [pm EXCEPT ![h] = Loaded(P2)]
       /\ disk' = File(P2)
       /\ last' = Call("allocate_ports", h, name,
                       IF A.ok THEN "ok" ELSE "PortExhausted", A, {}, <<P2>>)
       /\ NoBackup
       /\ UNCHANGED reg

\* PortManager.allocate_ports
AllocatePortsOp(h, name, need_frontend, need_backend, busy) ==
    LET P == RegistryOf(pm[h])
        A == AllocatePorts(P.allocated, name, need_frontend, need_backend, busy)
        P2 == [P EXCEPT !.allocated = A.post]
    IN /\ pm' = [pm EXCEPT ![h] = Loaded(P2)]
       /\ disk' = IF A.saved THEN File(P2) ELSE disk
       /\ last' = Call("allocate_ports", h, name,
                       IF A.ok THEN "ok" ELSE "PortExhausted", A, {},
                       IF A.saved THEN <<P2>> ELSE <<>>)
       /\ NoBackup
       /\ UNCHANGED reg

\* find_available_frontend_port / find_available_backend_port called on
\* their own (get_port_status, the tests): a search that records nothing
FindAvailablePortOp(h, kind, busy) ==
    LET P == RegistryOf(pm[h])
        found == IF kind = "frontend"
                 THEN FindAvailableFrontendPort(P.allocated, busy)
                 ELSE FindAvailableBackendPort(P.allocated, busy)
        A == [NoAllocation EXCEPT
                 !.need_frontend = (kind = "frontend"),
                 !.need_backend = (kind = "backend"),
                 !.frontend = IF kind = "frontend" THEN found ELSE NoPort,
                 !.backend = IF kind = "backend" THEN found ELSE NoPort,
                 !.busy = busy]
    IN /\ pm' = [pm EXCEPT ![h] = Loaded(P)]
       /\ last' = Call("find_available_port", h, "",
                       IF found = NoPort THEN "none" ELSE "ok", A, {}, <<>>)
       /\ NoBackup
       /\ UNCHANGED <<disk, reg>>

\* PortManager.is_port_allocated: allocated.get(str(port)), None without entry
IsPortAllocated(allocated, port) ==
    IF PortKey(port) \in DOMAIN allocated THEN allocated[PortKey(port)] ELSE NoName

\* the port_type arguments of validate_port
PortTypes == {"frontend", "backend", "any"}

\* PortManager.validate_port: the range of port_type, the reserved lists,
\* `if project:` on the owner the map gives, the connect probe
ValidatePort(allocated, port, port_type, busy) ==
    IF port_type = "frontend" /\ ~(FeStart <= port /\ port <= FeEnd)
    THEN [ok |-> FALSE, message |-> "outside frontend range"]
    ELSE IF port_type = "backend" /\ ~(ranges.be_start <= port /\ port <= ranges.be_end)
         THEN [ok |-> FALSE, message |-> "outside backend range"]
    ELSE IF IsPortReserved(port) THEN [ok |-> FALSE, message |-> "reserved"]
    ELSE IF Truthy(IsPortAllocated(allocated, port))
         THEN [ok |-> FALSE, message |-> "allocated"]
    ELSE IF port \in busy THEN [ok |-> FALSE, message |-> "in use"]
    ELSE [ok |-> TRUE, message |-> "available"]

\* validate_port called on a handle's port manager
ValidatePortOp(h, port, port_type, busy) ==
    LET P == RegistryOf(pm[h])
        v == ValidatePort(P.allocated, port, port_type, busy)
    IN /\ pm' = [pm EXCEPT ![h] = Loaded(P)]
       /\ res' = [NoResult EXCEPT !.op = "validate_port", !.success = v.ok,
                                   !.diagnostic = v.message, !.port = port,
                                   !.port_type = port_type, !.busy = busy]
       /\ last' = [NoCall EXCEPT !.op = "validate_port", !.h = h]
       /\ NoBackup
       /\ UNCHANGED <<disk, reg, pm2>>

\* f"{used / total * 100:.1f}%", as the number of tenths of a percent
Utilization(used, total) == (used * 2000 + total) \div (2 * total)

\* PortManager.get_port_status: the keys of the map by range (the frontend
\* range first), each range's size less the length of its own reserved list,
\* the two searches; the division raises ZeroDivisionError on a total of 0
GetPortStatus(allocated, busy) ==
    LET ports == {KeyPort(k) : k \in DOMAIN allocated}
        fe_allocated == {p \in ports : FeStart <= p /\ p <= FeEnd}
        be_allocated == {p \in ports \ fe_allocated :
                            ranges.be_start <= p /\ p <= ranges.be_end}
        fe_total == FeEnd - FeStart + 1 - Cardinality(ranges.fe_reserved)
        be_total == ranges.be_end - ranges.be_start + 1
                        - Cardinality(ranges.be_reserved)
    IN IF fe_total = 0 \/ be_total = 0
       THEN [NoPortStatus EXCEPT !.raised = TRUE]
       ELSE [raised |-> FALSE,
             used_ports |-> [s \in Services |->
                                IF s = "frontend" THEN fe_allocated ELSE be_allocated],
             total |-> [s \in Services |->
                           IF s = "frontend" THEN fe_total ELSE be_total],
             next_available |->
                 [s \in Services |->
                     IF s = "frontend" THEN FindAvailableFrontendPort(allocated, busy)
                     ELSE FindAvailableBackendPort(allocated, busy)],
             utilization |->
                 [s \in Services |->
                     IF s = "frontend"
                     THEN Utilization(Cardinality(fe_allocated), fe_total)
                     ELSE Utilization(Cardinality(be_allocated), be_total)]]

\* get_port_status called on a handle's port manager
GetPortStatusOp(h, busy) ==
    LET P == RegistryOf(pm[h])
    IN /\ pm' = [pm EXCEPT ![h] = Loaded(P)]
       /\ res' = [NoResult EXCEPT !.op = "get_port_status", !.busy = busy,
                                   !.port_status = GetPortStatus(P.allocated, busy)]
       /\ last' = [NoCall EXCEPT !.op = "get_port_status", !.h = h]
       /\ NoBackup
       /\ UNCHANGED <<disk, reg, pm2>>

\* release_ports writing the file whether or not an entry was removed
ReleasePortsOp_SaveAlways(h, name) ==
    LET P == RegistryOf(pm[h])
        ks == PortsToRelease(P.allocated, name)
        P2 == [P EXCEPT !.allocated = Del(P.allocated, ks)]
    IN /\ pm' = [pm EXCEPT ![h] = Loaded(P2)]
       /\ disk' = File(P2)
       /\ last' = Call("release_ports", h, name, "ok", NoAllocation,
                       {KeyPort(k) : k \in ks}, <<P2>>)
       /\ NoBackup
       /\ UNCHANGED reg

\* PortManager.release_ports
ReleasePortsOp(h, name) ==
    LET P == RegistryOf(pm[h])
        ks == PortsToRelease(P.allocated, name)
        P2 == [P EXCEPT !.allocated = Del(P.allocated, ks)]
    IN /\ pm' = [pm EXCEPT ![h] = Loaded(P2)]
       /\ disk' = IF ks # {} THEN File(P2) ELSE disk
       /\ last' = Call("release_ports", h, name, "ok", NoAllocation,
                       {KeyPort(k) : k \in ks},
                       IF ks # {} THEN <<P2>> ELSE <<>>)
       /\ NoBackup
       /\ UNCHANGED reg

(***************************************************************************)
(* allocate_ports statement by statement, as threads run it on one         *)
(* PortManager object.  Nothing in the method takes a lock, so the threads *)
(* interleave between any two statements.                                  *)
(***************************************************************************)
\* the handle whose port manager the threads share
Shared == "h1"

LogEntry(t, step, kind, port) == [t |-> t, step |-> step, kind |-> kind, port |-> port]

\* a thread enters allocate_ports(name, need_frontend, need_backend)
BeginCall(t, name, need_frontend, need_backend) ==
    /\ thr[t].pc = "idle"
    /\ thr' = [thr EXCEPT ![t] =
                  [NoThreadCall EXCEPT
                      !.pc = IF need_frontend THEN "fe_search"
                             ELSE IF need_backend THEN "be_search" ELSE "save",
                      !.name = name,
                      !.need_frontend = need_frontend,
                      !.need_backend = need_backend]]
    /\ log' = Append(log, LogEntry(t, "begin", "", NoPort))
    /\ UNCHANGED <<disk, reg, pm, last, steps, ranges, now, backups, created,
                    pm2, res>>

\* a search that reads the allocated map of the file, not of the shared copy
SearchStep_OnFile(t, kind, busy) ==
    LET P == RegistryOf(pm[Shared])
        c == thr[t]
        found == IF kind = "frontend"
                 THEN FindAvailableFrontendPort(Load(disk).allocated, busy)
                 ELSE FindAvailableBackendPort(Load(disk).allocated, busy)
    IN /\ c.pc = (IF kind = "frontend" THEN "fe_search" ELSE "be_search")
       /\ thr' = [thr EXCEPT ![t] =
                     IF found = NoPort THEN [c EXCEPT !.pc = "rollback"]
                     ELSE IF kind = "frontend"
                     THEN [c EXCEPT !.pc = "fe_record", !.frontend = found,
                                    !.allocated_ports = @ \cup {found}]
                     ELSE [c EXCEPT !.pc = "be_record", !.backend = found,
                                    !.allocated_ports = @ \cup {found}]]
       /\ pm' = [pm EXCEPT ![Shared] = Loaded(P)]
       /\ log' = Append(log, LogEntry(t, "search", kind, found))
       /\ UNCHANGED <<disk, reg, last, steps, ranges, now, backups, created,
                    pm2, res>>

\* find_available_frontend_port() / find_available_backend_port() and the
\* statements on the locals that follow: result[...] = port and
\* allocated_ports.append(port), or raise PortExhaustedError
SearchStep(t, kind, busy) ==
    LET P == RegistryOf(pm[Shared])
        c == thr[t]
        found == IF kind = "frontend"
                 THEN FindAvailableFrontendPort(P.allocated, busy)
                 ELSE FindAvailableBackendPort(P.allocated, busy)
    IN /\ c.pc = (IF kind = "frontend" THEN "fe_search" ELSE "be_search")
       /\ thr' = [thr EXCEPT ![t] =
                     IF found = NoPort THEN [c EXCEPT !.pc = "rollback"]
                     ELSE IF kind = "frontend"
                     THEN [c EXCEPT !.pc = "fe_record", !.frontend = found,
                                    !.allocated_ports = @ \cup {found}]
                     ELSE [c EXCEPT !.pc = "be_record", !.backend = found,
                                    !.allocated_ports = @ \cup {found}]]
       /\ pm' = [pm EXCEPT ![Shared] = Loaded(P)]
       /\ log' = Append(log, LogEntry(t, "search", kind, found))
       /\ UNCHANGED <<disk, reg, last, steps, ranges, now, backups, created,
                    pm2, res>>

\* self.registry.port_allocation.allocated[str(port)] = project_name
RecordStep(t, kind) ==
    LET P == RegistryOf(pm[Shared])
        c == thr[t]
        port == IF kind = "frontend" THEN c.frontend ELSE c.backend
        P2 == [P EXCEPT !.allocated = Put(P.allocated, PortKey(port), c.name)]
    IN /\ c.pc = (IF kind = "frontend" THEN "fe_record" ELSE "be_record")
       /\ thr' = [thr EXCEPT ![t].pc =
                     IF kind = "frontend" /\ c.need_backend
                     THEN "be_search" ELSE "save"]
       /\ pm' = [pm EXCEPT ![Shared] = Loaded(P2)]
       /\ log' = Append(log, LogEntry(t, "record", kind, port))
       /\ UNCHANGED <<disk, reg, last, steps, ranges, now, backups, created,
                    pm2, res>>

\* self.save(), then return result
SaveStep(t) ==
    LET P == RegistryOf(pm[Shared])
    IN /\ thr[t].pc = "save"
       /\ thr' = [thr EXCEPT ![t].pc = "returned"]
       /\ pm' = [pm EXCEPT ![Shared] = Loaded(P)]
       /\ disk' = File(P)
       /\ log' = Append(log, LogEntry(t, "save", "", NoPort))
       /\ UNCHANGED <<reg, last, steps, ranges, now, backups, created,
                    pm2, res>>

\* the except-branch: pop the ports of allocated_ports, re-raise
RollbackStep(t) ==
    LET P == RegistryOf(pm[Shared])
        c == thr[t]
        P2 == [P EXCEPT !.allocated = Rollback(P.allocated, c.allocated_ports)]
    IN /\ c.pc = "rollback"
       /\ thr' = [thr EXCEPT ![t].pc = "raised"]
       /\ pm' = [pm EXCEPT ![Shared] = Loaded(P2)]
       /\ log' = Append(log, LogEntry(t, "rollback", "", NoPort))
       /\ UNCHANGED <<disk, reg, last, steps, ranges, now, backups, created,
                    pm2, res>>

(***************************************************************************)
(* Project directory operations (project_registry.py)                      *)
(***************************************************************************)
\* ProjectRegistry.register_project
RegisterProject(h, name, frontend_command, backend_command, tags, auto_allocate_ports, path_ok, busy) ==
    LET R == RegistryOf(reg[h])
        P == RegistryOf(pm[h])
        need_frontend == frontend_command # NoCmd
        need_backend == backend_command # NoCmd
        allocating == auto_allocate_ports /\ (need_frontend \/ need_backend)
        A == IF allocating
             THEN AllocatePorts(P.allocated, name, need_frontend, need_backend, busy)
             ELSE NoAllocation
        P2 == [P EXCEPT !.allocated = A.post]
        frontend == IF Truthy(frontend_command) THEN Service(A.frontend) ELSE NoService
        backend == IF Truthy(backend_command) THEN Service(A.backend) ELSE NoService
        R2 == Stamp([R EXCEPT !.projects =
                         Put(R.projects, name,
                             NewProject(name, frontend, backend,
                                        DefaultTags \cup tags))],
                    "register_project")
    IN IF HasProject(R, name) THEN
           /\ reg' = [reg EXCEPT ![h] = Loaded(R)]
           /\ last' = Call("register_project", h, name, "ProjectExists",
                           NoAllocation, {}, <<>>)
           /\ NoBackup
           /\ UNCHANGED <<disk, pm>>
       ELSE IF ~path_ok THEN
           /\ reg' = [reg EXCEPT ![h] = Loaded(R)]
           /\ last' = Call("register_project", h, name, "InvalidPath",
                           NoAllocation, {}, <<>>)
           /\ NoBackup
           /\ UNCHANGED <<disk, pm>>
       ELSE IF allocating /\ ~pm[h].loaded /\ LoadRaises(disk) THEN
           \* the port manager's first use of its registry reads the file
           /\ reg' = [reg EXCEPT ![h] = Loaded(R)]
           /\ last' = Call("register_project", h, name, "LoadError",
                           NoAllocation, {}, <<>>)
           /\ NoBackup
           /\ UNCHANGED <<disk, pm>>
       ELSE IF allocating /\ ~A.ok THEN
           /\ reg' = [reg EXCEPT ![h] = Loaded(R)]
           /\ pm' = [pm EXCEPT ![h] = Loaded(P2)]
           /\ last' = Call("register_project", h, name, "PortExhausted", A, {}, <<>>)
           /\ NoBackup
           /\ UNCHANGED disk
       ELSE IF ~NameMatches(name) THEN
           \* Project.__post_init__ raises ValueError, after the allocation
           /\ reg' = [reg EXCEPT ![h] = Loaded(R)]
           /\ pm' = IF allocating THEN [pm EXCEPT ![h] = Loaded(P2)] ELSE pm
           /\ disk' = IF allocating THEN File(P2) ELSE disk
           /\ last' = Call("register_project", h, name, "ValueError", A, {},
                           IF allocating THEN <<P2>> ELSE <<>>)
           /\ NoBackup
       ELSE
           /\ reg' = [reg EXCEPT ![h] = Loaded(R2)]
           /\ pm' = IF allocating THEN [pm EXCEPT ![h] = Loaded(P2)] ELSE pm
           /\ disk' = File(R2)
           /\ last' = Call("register_project", h, name, SaveOutcome(R2), A, {},
                           IF allocating THEN <<P2>> \o Written(R2)
                           ELSE Written(R2))
           /\ SaveBackup(IF allocating THEN File(P2) ELSE disk)

\* ProjectRegistry.update_project
UpdateProject(h, name, patch) ==
    LET R == RegistryOf(reg[h])
    IN IF ~HasProject(R, name) THEN
           /\ reg' = [reg EXCEPT ![h] = Loaded(R)]
           /\ last' = [Call("update_project", h, name, "ProjectNotFound",
                            NoAllocation, {}, <<>>)
                           EXCEPT !.patch = patch.key]
           /\ NoBackup
           /\ UNCHANGED <<disk, pm>>
       ELSE
           LET R2 == Stamp([R EXCEPT !.projects[name] = ApplyPatch(@, patch)],
                           "update_project")
           IN /\ reg' = [reg EXCEPT ![h] = Loaded(R2)]
              /\ disk' = File(R2)
              /\ last' = [Call("update_project", h, name, SaveOutcome(R2),
                               NoAllocation, {}, Written(R2))
                              EXCEPT !.patch = patch.key]
              /\ SaveBackup(disk)
              /\ UNCHANGED pm

\* ProjectRegistry.remove_project
RemoveProject(h, name, release_ports) ==
    LET R == RegistryOf(reg[h])
        P == RegistryOf(pm[h])
        ks == IF release_ports THEN PortsToRelease(P.allocated, name) ELSE {}
        P2 == [P EXCEPT !.allocated = Del(P.allocated, ks)]
        R2 == Stamp([R EXCEPT !.projects = Del(R.projects, {name})],
                    "remove_project")
    IN IF ~HasProject(R, name) THEN
           /\ reg' = [reg EXCEPT ![h] = Loaded(R)]
           /\ last' = Call("remove_project", h, name, "ProjectNotFound",
                           NoAllocation, {}, <<>>)
           /\ NoBackup
           /\ UNCHANGED <<disk, pm>>
       ELSE IF release_ports /\ ~pm[h].loaded /\ LoadRaises(disk) THEN
           \* release_ports reads the file on the port manager's first use
           /\ reg' = [reg EXCEPT ![h] = Loaded(R)]
           /\ last' = [Call("remove_project", h, name, "LoadError",
                            NoAllocation, {}, <<>>)
                           EXCEPT !.release_ports = release_ports]
           /\ NoBackup
           /\ UNCHANGED <<disk, pm>>
       ELSE
           /\ reg' = [reg EXCEPT ![h] = Loaded(R2)]
           /\ pm' = IF release_ports THEN [pm EXCEPT ![h] = Loaded(P2)] ELSE pm
           /\ disk' = File(R2)
           /\ last' = [Call("remove_project", h, name, SaveOutcome(R2),
                            NoAllocation, {KeyPort(k) : k \in ks},
                            IF ks # {} THEN <<P2>> \o Written(R2)
                            ELSE Written(R2))
                           EXCEPT !.release_ports = release_ports]
           /\ SaveBackup(IF ks # {} THEN File(P2) ELSE disk)

\* the filter_tags argument: None, or a list of tags
NoFilter == [given |-> FALSE, tags |-> {}]
Filter(T) == [given |-> TRUE, tags |-> T]
Filters == {NoFilter} \cup {Filter(T) : T \in {{}, {"api"}, {"api", "web"}, {"zzz"}}}

\* `any(tag in p.tags for tag in filter_tags)` asking for every tag
AnyTag_All(tags, filter_tags) == filter_tags \subseteq tags

\* `any(tag in p.tags for tag in filter_tags)`
AnyTag(tags, filter_tags) == \E tag \in filter_tags : tag \in tags

\* ProjectRegistry.list_projects; `if filter_tags:` is false for None and
\* for an empty list
ListProjects(h, filter_tags) ==
    LET R == RegistryOf(reg[h])
        projects == DOMAIN R.projects
        filtered == {k \in projects : AnyTag(R.projects[k].tags, filter_tags.tags)}
    IN /\ reg' = [reg EXCEPT ![h] = Loaded(R)]
       /\ res' = [NoResult EXCEPT
                      !.op = "list_projects", !.filter_tags = filter_tags,
                      !.projects = IF filter_tags.given /\ filter_tags.tags # {}
                                   THEN filtered ELSE projects]
       /\ last' = [NoCall EXCEPT !.op = "list_projects", !.h = h]
       /\ NoBackup
       /\ UNCHANGED <<disk, pm, pm2>>

(***************************************************************************)
(* Process controller (process_controller.py)                              *)
(***************************************************************************)
\* how a supervisor command can end: exit code 0; a non-zero exit code; a
\* non-zero exit code with "not found" in stderr; subprocess.TimeoutExpired;
\* FileNotFoundError (the tool is not installed)
Faults == {"nonzero", "timeout", "missing"}
Exits == {"ok", "notfound"} \cup Faults

\* _run_pm2_command raises PM2Error
Raises(e) == e \in {"timeout", "missing"}

\* the text of the PM2Error, or the stderr of the command
Diagnostic(e) ==
    CASE e = "timeout" -> "PM2 command timed out"
      [] e = "missing" -> "PM2 is not installed"
      [] e = "nonzero" -> "stderr"
      [] e = "notfound" -> "not found"
      [] OTHER -> ""

\* the statuses that the supervisor reports for a process it knows
PM2Statuses == {"online", "stopped", "errored", "launching"}

Ran(cmd, e) == [cmd |-> cmd, exit |-> e]

\* _get_service_status when the jlist command ended with e, not raising: a
\* failed jlist is an empty process list
GetServiceStatus(T, proc, e) ==
    IF e # "ok" \/ T[proc] = "absent" THEN "not_started"
    ELSE IF T[proc] = "online" THEN "online"
    ELSE IF T[proc] = "stopped" THEN "stopped"
    ELSE "errored"

\* `elif all(s in ["stopped", "not_started"] ...)` testing for "stopped"
\* alone
OverallStatus_StoppedOnly(statuses) ==
    LET S == {statuses[i] : i \in 1..Len(statuses)}
    IN IF statuses = <<>> THEN "stopped"
       ELSE IF \A s \in S : s = "online" THEN "running"
       ELSE IF \A s \in S : s = "stopped" THEN "stopped"
       ELSE IF \E s \in S : s = "errored" THEN "error"
       ELSE "partial"

\* the overall status of get_project_status, from the list of the statuses
\* of the services that have one
OverallStatus(statuses) ==
    LET S == {statuses[i] : i \in 1..Len(statuses)}
    IN IF statuses = <<>> THEN "stopped"
       ELSE IF \A s \in S : s = "online" THEN "running"
       ELSE IF \A s \in S : s \in {"stopped", "not_started"} THEN "stopped"
       ELSE IF \E s \in S : s = "errored" THEN "error"
       ELSE "partial"

\* the list `statuses` of get_project_status
StatusList(frontend, backend) ==
    (IF frontend # "none" THEN <<frontend>> ELSE <<>>)
        \o (IF backend # "none" THEN <<backend>> ELSE <<>>)

\* a test for the service alone, without its enabled flag
TakesPart_Present(service) == service.present

\* `project.frontend and project.frontend.enabled`
TakesPart(service) == service.present /\ service.enabled

\* get_project_status of a registered project; exits: service -> how the
\* jlist command for that service ends
ProjectStatus(R, T, name, exits) ==
    LET project == R.projects[name]
        fe_raised == TakesPart(project.frontend) /\ Raises(exits.frontend)
        be_raised == ~fe_raised /\ TakesPart(project.backend) /\ Raises(exits.backend)
        frontend == IF TakesPart(project.frontend) /\ ~fe_raised
                    THEN GetServiceStatus(T, <<name, "frontend">>, exits.frontend)
                    ELSE "none"
        backend == IF TakesPart(project.backend) /\ ~fe_raised /\ ~be_raised
                   THEN GetServiceStatus(T, <<name, "backend">>, exits.backend)
                   ELSE "none"
        ran == [s \in Services |->
                   IF s = "frontend"
                   THEN IF TakesPart(project.frontend)
                        THEN <<Ran("jlist", exits.frontend)>> ELSE <<>>
                   ELSE IF TakesPart(project.backend) /\ ~fe_raised
                        THEN <<Ran("jlist", exits.backend)>> ELSE <<>>]
    IN [raised |-> fe_raised \/ be_raised,
        diagnostic |-> IF fe_raised THEN Diagnostic(exits.frontend)
                       ELSE IF be_raised THEN Diagnostic(exits.backend) ELSE "",
        frontend |-> frontend, backend |-> backend, ran |-> ran,
        overall |-> IF fe_raised \/ be_raised THEN "none"
                    ELSE OverallStatus(StatusList(frontend, backend))]

\* _start_service; script: command -> how it ends
StartService(T, proc, script) ==
    LET existing == script.jlist = "ok" /\ T[proc] # "absent"
        T1 == IF existing /\ script.delete = "ok"
              THEN [T EXCEPT ![proc] = "absent"] ELSE T
        deleted == IF existing THEN <<Ran("delete", script.delete)>> ELSE <<>>
        ran == <<Ran("jlist", script.jlist)>> \o deleted
                   \o <<Ran("start", script.start)>>
    IN IF Raises(script.jlist) THEN
           [error |-> Diagnostic(script.jlist), table |-> T,
            ran |-> <<Ran("jlist", script.jlist)>>]
       ELSE IF existing /\ T[proc] = "online" THEN
           [error |-> "", table |-> T, ran |-> <<Ran("jlist", script.jlist)>>]
       ELSE IF existing /\ Raises(script.delete) THEN
           [error |-> Diagnostic(script.delete), table |-> T,
            ran |-> <<Ran("jlist", script.jlist)>> \o deleted]
       ELSE IF script.start # "ok" THEN
           [error |-> Diagnostic(script.start), table |-> T1, ran |-> ran]
       ELSE [error |-> "", table |-> [T1 EXCEPT ![proc] = "online"], ran |-> ran]

\* one `try:` block of start_project: _start_service, then
\* _get_service_status, a PM2Error of either being caught
TryStart(T, proc, script) ==
    LET S == StartService(T, proc, script)
    IN IF S.error # "" THEN
           [error |-> S.error, status |-> "none", table |-> S.table, ran |-> S.ran]
       ELSE IF Raises(script.status) THEN
           [error |-> Diagnostic(script.status), status |-> "none",
            table |-> S.table, ran |-> S.ran \o <<Ran("jlist", script.status)>>]
       ELSE [error |-> "",
             status |-> GetServiceStatus(S.table, proc, script.status),
             table |-> S.table, ran |-> S.ran \o <<Ran("jlist", script.status)>>]

\* a service that start_project passes over
NotTried(T) == [error |-> "", status |-> "none", table |-> T, ran |-> <<>>]

\* the errors list: the services with an error text
Errors(fe_error, be_error) ==
    [s \in {x \in Services : (IF x = "frontend" THEN fe_error ELSE be_error) # ""}
        |-> IF s = "frontend" THEN fe_error ELSE be_error]

\* start_project of a registered project, for both services;
\* scripts: service -> command -> how it ends
StartProject(R, T, name, scripts) ==
    LET project == R.projects[name]
        F == IF TakesPart(project.frontend)
             THEN TryStart(T, <<name, "frontend">>, scripts.frontend)
             ELSE NotTried(T)
        B == IF TakesPart(project.backend)
             THEN TryStart(F.table, <<name, "backend">>, scripts.backend)
             ELSE NotTried(F.table)
    IN [raised |-> FALSE, diagnostic |-> "",
        success |-> F.error = "" /\ B.error = "",
        errors |-> Errors(F.error, B.error),
        ran |-> [s \in Services |-> IF s = "frontend" THEN F.ran ELSE B.ran],
        frontend |-> F.status, backend |-> B.status, table |-> B.table]

\* `pm2 stop <name>` ending with e, when it does not raise
Stopped(T, proc, e) == IF e = "ok" THEN [T EXCEPT ![proc] = "stopped"] ELSE T

\* `if result.returncode != 0 and "not found" not in result.stderr.lower()`
StopError(e) == IF e \in {"ok", "notfound"} THEN "" ELSE Diagnostic(e)

\* stop_project of a registered project, for both services;
\* stops: service -> how its stop command ends; exits: as in ProjectStatus
StopProject(R, T, name, stops, exits) ==
    LET T1 == Stopped(T, <<name, "frontend">>, stops.frontend)
        T2 == Stopped(T1, <<name, "backend">>, stops.backend)
        status == ProjectStatus(R, T2, name, exits)
        fe_ran == <<Ran("stop", stops.frontend)>>
        be_ran == <<Ran("stop", stops.backend)>>
        errors == Errors(StopError(stops.frontend), StopError(stops.backend))
    IN IF Raises(stops.frontend) THEN
           [raised |-> TRUE, diagnostic |-> Diagnostic(stops.frontend),
            success |-> FALSE, errors |-> EmptyMap,
            ran |-> [s \in Services |-> IF s = "frontend" THEN fe_ran ELSE <<>>],
            frontend |-> "none", backend |-> "none", table |-> T]
       ELSE IF Raises(stops.backend) THEN
           [raised |-> TRUE, diagnostic |-> Diagnostic(stops.backend),
            success |-> FALSE, errors |-> EmptyMap,
            ran |-> [s \in Services |-> IF s = "frontend" THEN fe_ran ELSE be_ran],
            frontend |-> "none", backend |-> "none", table |-> T1]
       ELSE IF status.raised THEN
           [raised |-> TRUE, diagnostic |-> status.diagnostic,
            success |-> FALSE, errors |-> EmptyMap,
            ran |-> [s \in Services |->
                        (IF s = "frontend" THEN fe_ran ELSE be_ran) \o status.ran[s]],
            frontend |-> "none", backend |-> "none", table |-> T2]
       ELSE
           [raised |-> FALSE, diagnostic |-> "",
            success |-> DOMAIN errors = {}, errors |-> errors,
            ran |-> [s \in Services |->
                        (IF s = "frontend" THEN fe_ran ELSE be_ran) \o status.ran[s]],
            frontend |-> status.frontend, backend |-> status.backend,
            table |-> T2]

\* restart_project of a registered project: the result of the stop unless
\* it succeeded, else the result of the start
RestartProject(R, T, name, stops, exits, scripts) ==
    LET stop_result == StopProject(R, T, name, stops, exits)
        start_result == StartProject(R, stop_result.table, name, scripts)
    IN IF stop_result.raised \/ ~stop_result.success THEN stop_result
       ELSE [start_result EXCEPT
                 !.ran = [s \in Services |-> stop_result.ran[s] \o @[s]]]

\* a call of the controller that also saves its registry
ControlCall_Saving(h, op, name, result, T) ==
    LET R == RegistryOf(reg[h])
    IN /\ reg' = [reg EXCEPT ![h] = Loaded(Stamp(R, "system"))]
       /\ disk' = File(Stamp(R, "system"))
       /\ SaveBackup(disk)
       /\ res' = result
       /\ pm2' = T
       /\ last' = [NoCall EXCEPT !.op = op, !.h = h, !.name = name]
       /\ UNCHANGED pm

\* a call of the controller: it reads its registry (self.registry, loaded
\* on first use), talks to the supervisor and returns; nothing is saved
ControlCall(h, op, name, result, T) ==
    /\ reg' = [reg EXCEPT ![h] = Loaded(RegistryOf(reg[h]))]
    /\ res' = result
    /\ pm2' = T
    /\ last' = [NoCall EXCEPT !.op = op, !.h = h, !.name = name]
    /\ NoBackup
    /\ UNCHANGED <<disk, pm>>

\* the OperationResult for a project that get_project does not find
NotFound(op, name) ==
    [NoResult EXCEPT !.op = op, !.name = name,
                     !.diagnostic = "Project not found"]

\* the fields of a result that the operators above have computed
Returned(op, name, r) ==
    [NoResult EXCEPT !.op = op, !.name = name, !.found = TRUE,
                     !.raised = r.raised, !.diagnostic = r.diagnostic,
                     !.success = r.success, !.errors = r.errors, !.ran = r.ran,
                     !.frontend = r.frontend, !.backend = r.backend]

\* ProcessController.get_project_status
GetProjectStatusOp(h, name, exits) ==
    LET R == RegistryOf(reg[h])
        status == ProjectStatus(R, pm2, name, exits)
    IN IF ~HasProject(R, name)
       THEN ControlCall(h, "get_project_status", name,
                        NotFound("get_project_status", name), pm2)
       ELSE ControlCall(h, "get_project_status", name,
                        [NoResult EXCEPT
                             !.op = "get_project_status", !.name = name,
                             !.found = TRUE, !.raised = status.raised,
                             !.diagnostic = status.diagnostic,
                             !.ran = status.ran,
                             !.frontend = status.frontend,
                             !.backend = status.backend,
                             !.overall = status.overall],
                        pm2)

\* ProcessController.get_all_status: get_project_status of every listed
\* project
GetAllStatusOp(h, exits) ==
    LET R == RegistryOf(reg[h])
        status(k) == ProjectStatus(R, pm2, k, exits)
        raised == \E k \in DOMAIN R.projects : status(k).raised
    IN ControlCall(h, "get_all_status", "",
                   [NoResult EXCEPT
                        !.op = "get_all_status", !.found = TRUE,
                        !.raised = raised,
                        !.projects = IF raised THEN {}
                                     ELSE {<<k, status(k).overall>> :
                                              k \in DOMAIN R.projects}],
                   pm2)

\* ProcessController.start_project
StartProjectOp(h, name, scripts) ==
    LET R == RegistryOf(reg[h])
        r == StartProject(R, pm2, name, scripts)
    IN IF ~HasProject(R, name)
       THEN ControlCall(h, "start_project", name,
                        NotFound("start_project", name), pm2)
       ELSE ControlCall(h, "start_project", name,
                        Returned("start_project", name, r), r.table)

\* ProcessController.stop_project
StopProjectOp(h, name, stops, exits) ==
    LET R == RegistryOf(reg[h])
        r == StopProject(R, pm2, name, stops, exits)
    IN IF ~HasProject(R, name)
       THEN ControlCall(h, "stop_project", name,
                        NotFound("stop_project", name), pm2)
       ELSE ControlCall(h, "stop_project", name,
                        Returned("stop_project", name, r), r.table)

\* ProcessController.restart_project
RestartProjectOp(h, name, stops, exits, scripts) ==
    LET R == RegistryOf(reg[h])
        r == RestartProject(R, pm2, name, stops, exits, scripts)
    IN IF ~HasProject(R, name)
       THEN ControlCall(h, "restart_project", name,
                        NotFound("restart_project", name), pm2)
       ELSE ControlCall(h, "restart_project", name,
                        Returned("restart_project", name, r), r.table)

\* the supervisor's own doing: a process changes its status
SupervisorEvent(proc, status) ==
    /\ pm2[proc] # "absent"
    /\ pm2' = [pm2 EXCEPT ![proc] = status]
    /\ last' = [NoCall EXCEPT !.op = "supervisor"]
    /\ NoBackup
    /\ UNCHANGED <<disk, reg, pm, res>>

(***************************************************************************)
(* Specifications                                                          *)
(***************************************************************************)
\* length of the call sequences explored
MaxSteps == 3

Register(h, names, cmds) ==
    \E name \in names, fc \in cmds, bc \in cmds,
       auto \in BOOLEAN, path_ok \in BOOLEAN, busy \in BusySets :
        RegisterProject(h, name, fc, bc, {}, auto, path_ok, busy)

Update(h) ==
    \E name \in ValidNames, patch \in Patches : UpdateProject(h, name, patch)

Remove(h) ==
    \E name \in ValidNames, release_ports \in BOOLEAN :
        RemoveProject(h, name, release_ports)

Allocate(h, names) ==
    \E name \in names, nf \in BOOLEAN, nb \in BOOLEAN, busy \in BusySets :
        AllocatePortsOp(h, name, nf, nb, busy)

Release(h) ==
    \E name \in Names : ReleasePortsOp(h, name)

\* update_project with an updates dict that changes nothing in the project
\* (an unknown key)
Touch(h) ==
    \E name \in {"a"} :
        UpdateProject(h, name, [key |-> "bogus", value |-> NoService])

Find(h) ==
    \E kind \in {"frontend", "backend"}, busy \in BusySets :
        FindAvailablePortOp(h, kind, busy)

\* one more call: of the process controller or a query
Step ==
    /\ steps < MaxSteps
    /\ steps' = steps + 1
    /\ UNCHANGED <<ranges, thr, log, now>>

\* one more call of the registry or the port manager
Tick == Step /\ UNCHANGED <<pm2, res>>

\* every operation, through one handle that may be constructed afresh
Next ==
    \/ Tick /\ NewHandle("h1")
    \/ Tick /\ Reload("h1")
    \/ Tick /\ Register("h1", Names, PlainCommands)
    \/ Tick /\ Update("h1")
    \/ Tick /\ Remove("h1")
    \/ Tick /\ Allocate("h1", Names)
    \/ Tick /\ Release("h1")

Spec == Init /\ [][Next]_vars

\* the port manager alone
NextAlloc ==
    \/ Tick /\ NewHandle("h1")
    \/ Tick /\ Reload("h1")
    \/ Tick /\ Allocate("h1", Names)
    \/ Tick /\ Release("h1")

SpecAlloc == Init /\ [][NextAlloc]_vars

\* every operation again, for one project name that is registered and one
\* that is only passed to the port manager
NextPorts ==
    \/ Tick /\ NewHandle("h1")
    \/ Tick /\ Reload("h1")
    \/ Tick /\ Register("h1", {"a"}, PlainCommands)
    \/ Tick /\ Update("h1")
    \/ Tick /\ Remove("h1")
    \/ Tick /\ Allocate("h1", {"b"})
    \/ Tick /\ Release("h1")

SpecPorts == Init /\ [][NextPorts]_vars

\* registration and removal, through handles constructed afresh or reloaded
NextRegistry ==
    \/ Tick /\ NewHandle("h1")
    \/ Tick /\ Reload("h1")
    \/ Tick /\ Register("h1", Names, Commands)
    \/ Tick /\ Remove("h1")

SpecRegistry == Init /\ [][NextRegistry]_vars

\* the project directory operations through one handle that is never
\* replaced or reloaded
NextDirectory ==
    \/ Tick /\ Register("h1", Names, PlainCommands)
    \/ Tick /\ Update("h1")
    \/ Tick /\ Remove("h1")

SpecDirectory == Init /\ [][NextDirectory]_vars

\* two handles on the same registry file (server.py builds a new one for
\* every request; the dashboard keeps its own), neither reloaded; one
\* project name is registered and one is only passed to the port manager
NextHandles ==
    \/ \E h \in Handles : Tick /\ Register(h, {"a"}, PlainCommands)
    \/ \E h \in Handles : Tick /\ Update(h)
    \/ \E h \in Handles : Tick /\ Remove(h)
    \/ \E h \in Handles : Tick /\ Allocate(h, {"b"})
    \/ \E h \in Handles : Tick /\ Release(h)

SpecHandles == Init /\ [][NextHandles]_vars

\* number of calls in the runs that fill the backup directory
MaxCalls == 12
\* seconds the clock may move between two calls: not at all, forward, or
\* back (datetime.now() is local wall-clock time)
Deltas == {-1, 0, 1}

TickClock ==
    /\ steps < MaxCalls
    /\ steps' = steps + 1
    /\ \E dt \in Deltas : now + dt >= 0 /\ now' = now + dt
    /\ UNCHANGED <<ranges, thr, log, pm2, res>>

\* many saves of one project through one handle, while the clock runs
NextBackup ==
    \/ TickClock /\ Register("h1", {"a"}, {NoCmd})
    \/ TickClock /\ Touch("h1")

SpecBackup == Init /\ [][NextBackup]_vars

\* two threads, each running one allocate_ports call on the shared port
\* manager
NextRace ==
    \/ \E t \in Threads, name \in ValidNames, nf \in BOOLEAN, nb \in BOOLEAN :
           BeginCall(t, name, nf, nb)
    \/ \E t \in Threads, kind \in {"frontend", "backend"}, busy \in BusySets :
           SearchStep(t, kind, busy)
    \/ \E t \in Threads, kind \in {"frontend", "backend"} : RecordStep(t, kind)
    \/ \E t \in Threads : SaveStep(t)
    \/ \E t \in Threads : RollbackStep(t)

SpecRace == Init /\ [][NextRace]_vars

\* the port manager on a registry whose reserved lists are the defaults (no
\* file yet) or are given by an existing registry file
InitSearch ==
    /\ ranges \in Configs
    /\ disk = IF ranges = DefaultRanges THEN NoFile ELSE File(DefaultDoc)
    /\ reg = [h \in Handles |-> NotLoaded]
    /\ pm = [h \in Handles |-> NotLoaded]
    /\ last = NoCall
    /\ steps = 0
    /\ thr = [t \in Threads |-> NoThreadCall]
    /\ log = <<>>
    /\ now = 0
    /\ backups = EmptyMap
    /\ created = {}
    /\ pm2 = NoProcesses
    /\ res = NoResult

NextSearch ==
    \/ Tick /\ Find("h1")
    \/ Tick /\ Allocate("h1", ValidNames)
    \/ Tick /\ Release("h1")

SpecSearch == InitSearch /\ [][NextSearch]_vars

\* the tag lists given to register_project
TagSets == {{}, {"api"}}

RegisterTagged(h) ==
    \E name \in Names \cup {"a\n"}, fc \in PlainCommands, bc \in PlainCommands,
       tags \in TagSets, auto \in BOOLEAN :
        RegisterProject(h, name, fc, bc, tags, auto, TRUE, {})

UpdateFields(h) ==
    \E name \in ValidNames,
       patch \in Patches \cup FieldPatches \cup AttributePatches :
        UpdateProject(h, name, patch)

\* the project directory through one handle, with patches of every kind
NextFields ==
    \/ Tick /\ RegisterTagged("h1")
    \/ Tick /\ UpdateFields("h1")
    \/ Tick /\ Remove("h1")

SpecFields == Init /\ [][NextFields]_vars

\* registering with tags, retagging and listing through one handle
NextList ==
    \/ Tick /\ \E name \in ValidNames, tags \in TagSets \cup {{"web"}} :
                  RegisterProject("h1", name, NoCmd, NoCmd, tags, FALSE, TRUE, {})
    \/ Tick /\ \E name \in ValidNames :
                  UpdateProject("h1", name, [key |-> "tags", value |-> {"web"}])
    \/ Step /\ \E filter_tags \in Filters : ListProjects("h1", filter_tags)

SpecList == Init /\ [][NextList]_vars

\* how the commands of one _start_service and the status query after it
\* end: all with exit code 0, or one of them with a fault
AllOk == [jlist |-> "ok", delete |-> "ok", start |-> "ok", status |-> "ok"]
Scripts ==
    {AllOk} \cup {[AllOk EXCEPT ![c] = e] : c \in DOMAIN AllOk, e \in Faults}
\* how the jlist commands of a status query end
JlistExits == [Services -> {"ok"} \cup Faults]
OkExits == [s \in Services |-> "ok"]
\* the status query after a stop: no fault, or one
FewExits ==
    {OkExits, [OkExits EXCEPT !.frontend = "timeout"],
     [OkExits EXCEPT !.backend = "missing"],
     [OkExits EXCEPT !.frontend = "nonzero"]}
\* a few of the scripts: no fault, and one of each kind
FewScripts ==
    {AllOk, [AllOk EXCEPT !.start = "nonzero"], [AllOk EXCEPT !.jlist = "missing"],
     [AllOk EXCEPT !.status = "timeout"]}
\* how the stop commands end: exit code 0 only for a process that the
\* supervisor knows, "not found" only for one that it does not know
StopExits(T, name) ==
    {stops \in [Services -> Exits] :
        \A s \in Services :
            /\ stops[s] = "ok" => T[<<name, s>>] # "absent"
            /\ stops[s] = "notfound" => T[<<name, s>>] = "absent"}

\* the controller and its registry handle, the supervisor beside them
NextControl ==
    \/ Tick /\ \E fc \in PlainCommands, bc \in PlainCommands :
                  RegisterProject("h1", "a", fc, bc, {}, TRUE, TRUE, {})
    \/ Step /\ \E proc \in ProcessNames, status \in PM2Statuses :
                  SupervisorEvent(proc, status)
    \/ Step /\ \E name \in ValidNames, exits \in JlistExits :
                  GetProjectStatusOp("h1", name, exits)
    \/ Step /\ \E exits \in JlistExits : GetAllStatusOp("h1", exits)
    \/ Step /\ \E name \in ValidNames, fe \in Scripts, be \in FewScripts :
                  StartProjectOp("h1", name, [frontend |-> fe, backend |-> be])
    \/ Step /\ \E name \in ValidNames, exits \in FewExits :
                  \E stops \in StopExits(pm2, name) :
                      StopProjectOp("h1", name, stops, exits)
    \/ Step /\ \E name \in ValidNames, exits \in {OkExits}, fe \in FewScripts :
                  \E stops \in StopExits(pm2, name) :
                      RestartProjectOp("h1", name, stops, exits,
                                       [frontend |-> fe, backend |-> AllOk])

\* a controller is constructed beside a supervisor that may already know
\* processes of project "a", in any status
InitControl ==
    /\ disk = NoFile
    /\ reg = [h \in Handles |-> NotLoaded]
    /\ pm = [h \in Handles |-> NotLoaded]
    /\ last = NoCall
    /\ steps = 0
    /\ ranges = DefaultRanges
    /\ thr = [t \in Threads |-> NoThreadCall]
    /\ log = <<>>
    /\ now = 0
    /\ backups = EmptyMap
    /\ created = {}
    /\ pm2 \in {T \in [ProcessNames -> {"absent"} \cup PM2Statuses] :
                    \A proc \in ProcessNames : proc[1] # "a" => T[proc] = "absent"}
    /\ res = NoResult

SpecControl == InitControl /\ [][NextControl]_vars

\* the searches and the allocator, on the default ranges and on a registry
\* file whose backend range overlaps the frontend range
InitOverlap ==
    /\ ranges \in {DefaultRanges, OverlapRanges}
    /\ disk = IF ranges = DefaultRanges THEN NoFile ELSE File(DefaultDoc)
    /\ reg = [h \in Handles |-> NotLoaded]
    /\ pm = [h \in Handles |-> NotLoaded]
    /\ last = NoCall
    /\ steps = 0
    /\ thr = [t \in Threads |-> NoThreadCall]
    /\ log = <<>>
    /\ now = 0
    /\ backups = EmptyMap
    /\ created = {}
    /\ pm2 = NoProcesses
    /\ res = NoResult

NextOverlap ==
    \/ Tick /\ Find("h1")
    \/ Tick /\ Allocate("h1", ValidNames)
    \/ Tick /\ Release("h1")

SpecOverlap == InitOverlap /\ [][NextOverlap]_vars

\* the display names update_project may be given: None, the empty string, a
\* text
DisplayNames == {NoName, "", "Shown"}
DisplayPatches == {[key |-> "display_name", value |-> v] : v \in DisplayNames}

\* registering without ports, patching the display name or the tags, and
\* reading the file again, through one handle
NextDisplay ==
    \/ Tick /\ \E name \in ValidNames, tags \in TagSets :
                  RegisterProject("h1", name, NoCmd, NoCmd, tags, FALSE, TRUE, {})
    \/ Tick /\ \E name \in ValidNames,
                  patch \in DisplayPatches \cup {[key |-> "tags", value |-> {"web"}]} :
                  UpdateProject("h1", name, patch)
    \/ Tick /\ Reload("h1")
    \/ Tick /\ NewHandle("h1")

SpecDisplay == Init /\ [][NextDisplay]_vars

\* ServiceConfig(enabled=False, port=p)
DisabledService(p) == [Service(p) EXCEPT !.enabled = FALSE]

\* update_project(name, {kind: ServiceConfig(enabled=False)})
Disable(h) ==
    \E name \in ValidNames, kind \in {"frontend", "backend"} :
        UpdateProject(h, name, [key |-> kind, value |-> DisabledService(NoPort)])

\* the status query for a project whose services may be switched off
NextEnabled ==
    \/ Tick /\ \E fc \in PlainCommands, bc \in PlainCommands :
                  RegisterProject("h1", "a", fc, bc, {}, TRUE, TRUE, {})
    \/ Tick /\ Disable("h1")
    \/ Step /\ \E proc \in ProcessNames, status \in PM2Statuses :
                  SupervisorEvent(proc, status)
    \/ Step /\ \E name \in ValidNames, exits \in JlistExits :
                  GetProjectStatusOp("h1", name, exits)

SpecEnabled == InitControl /\ [][NextEnabled]_vars

\* the ports validate_port is asked about
ValidatePorts == Ports

\* validate_port beside the search, the allocator and a registration; the
\* name may be the empty string
NextValidate ==
    \/ Tick /\ \E name \in {"a", ""}, fc \in PlainCommands :
                  RegisterProject("h1", name, fc, NoCmd, {}, TRUE, TRUE, {})
    \/ Tick /\ Find("h1")
    \/ Tick /\ Allocate("h1", {"a"})
    \/ Tick /\ Release("h1")
    \/ Step /\ \E port \in ValidatePorts, port_type \in PortTypes, busy \in BusySets :
                  ValidatePortOp("h1", port, port_type, busy)

SpecValidate == InitSearch /\ [][NextValidate]_vars

\* the calls of a run of registrations and removals
MaxCycleSteps == 5

TickCycle ==
    /\ steps < MaxCycleSteps
    /\ steps' = steps + 1
    /\ UNCHANGED <<ranges, thr, log, now, pm2, res>>

\* registering with the ports allocated and removing with the ports
\* released, again and again through one handle that is not reloaded
NextCycle ==
    \/ TickCycle /\ \E name \in ValidNames, fc \in Commands, bc \in PlainCommands :
                       RegisterProject("h1", name, fc, bc, {}, TRUE, TRUE, {})
    \/ TickCycle /\ \E name \in ValidNames : RemoveProject("h1", name, TRUE)

SpecCycle == Init /\ [][NextCycle]_vars

\* the port summary beside the allocator, on the default ranges
NextStatus ==
    \/ Tick /\ Allocate("h1", ValidNames)
    \/ Tick /\ Release("h1")
    \/ Step /\ \E busy \in BusySets : GetPortStatusOp("h1", busy)

SpecStatus == Init /\ [][NextStatus]_vars

(***************************************************************************)
(* Properties                                                              *)
(***************************************************************************)
Kinds == {"frontend", "backend"}
PortOf(project, kind) ==
    IF kind = "frontend" THEN project.frontend.port ELSE project.backend.port

\* keys of the ports a range can hand out: inside that range only, and not
\* in that range's reserved set
FeKeys == {PortKey(p) : p \in {q \in FeRange : q \notin BeRange /\ q \notin FeReserved}}
BeKeys == {PortKey(p) : p \in {q \in BeRange : q \notin FeRange /\ q \notin BeReserved}}

\* the allocated maps before and after the call that `last'` records
PreAllocated == RegistryOf(pm[last'.h]).allocated
PostAllocated == RegistryAt(pm'[last'.h], disk').allocated
PreProjects == RegistryOf(reg[last'.h]).projects
PostProjects == RegistryAt(reg'[last'.h], disk').projects

UniquePorts(projects) ==
    \A n1 \in DOMAIN projects, n2 \in DOMAIN projects, k1 \in Kinds, k2 \in Kinds :
        (<<n1, k1>> # <<n2, k2>> /\ PortOf(projects[n1], k1) # NoPort)
            => PortOf(projects[n1], k1) # PortOf(projects[n2], k2)

\* C1: after any sequence of register_project and remove_project calls, also
\* through fresh handles or after reload(), no two service configs stored in
\* the registry (the file, or a handle's copy of it) hold the same non-null port.
C1_UniquePorts ==
    /\ UniquePorts(Load(disk).projects)
    /\ \A h \in Handles : reg[h].loaded => UniquePorts(reg[h].doc.projects)

\* C2: after a register_project call that returned with auto-allocated ports,
\* the file's allocated map has str(port) -> name for every non-null port of
\* the new project's frontend and backend.
C2_AssignmentPersisted ==
    (last.op = "register_project" /\ last.outcome = "ok" /\ last.alloc.called)
        => \A k \in Kinds :
               LET p == PortOf(Load(disk).projects[last.name], k)
               IN p # NoPort =>
                      /\ PortKey(p) \in DOMAIN Load(disk).allocated
                      /\ Load(disk).allocated[PortKey(p)] = last.name

\* C3: allocate_ports is all-or-nothing: it returns a port for every requested
\* kind, each recorded under the project name in memory and in the saved
\* document, or it raises and the in-memory map is what it was before the
\* call; never is only one of two requested ports recorded, in memory or on disk.
C3_AllOrNothing ==
    [][last'.op = "allocate_ports" =>
         LET A == last'.alloc
             got == {A.frontend, A.backend} \ {NoPort}
             keys == {PortKey(p) : p \in got}
         IN IF A.ok
            THEN /\ A.need_frontend => A.frontend # NoPort
                 /\ A.need_backend => A.backend # NoPort
                 /\ \A k \in keys :
                        /\ k \in DOMAIN PostAllocated
                        /\ PostAllocated[k] = last'.name
                        /\ disk'.exists
                        /\ k \in DOMAIN disk'.doc.allocated
                        /\ disk'.doc.allocated[k] = last'.name
            ELSE /\ PostAllocated = PreAllocated
                 /\ disk' = disk
                 /\ (DOMAIN Load(disk').allocated) \cap
                        {PortKey(p) : p \in A.allocated_ports} = {}]_vars

\* a call that asked for both kinds returned both, and the file holds both
C3_Witness ==
    /\ last.op = "allocate_ports" /\ last.alloc.ok
    /\ last.alloc.need_frontend /\ last.alloc.need_backend
    /\ disk.exists
    /\ {PortKey(last.alloc.frontend), PortKey(last.alloc.backend)}
           \subseteq DOMAIN disk.doc.allocated

\* C4: projects persisted before a register_project, update_project or
\* remove_project call on another project, made through the same handle, are
\* present in the file after each individual write of that call.
C4_ProjectsSurviveWrites ==
    [][last'.op \in {"register_project", "update_project", "remove_project"} =>
         \A n \in DOMAIN Load(disk).projects \ {last'.name} :
             \A i \in 1..Len(last'.writes) :
                 n \in DOMAIN last'.writes[i].projects]_vars

\* C5: whenever register_project raises, the projects map and the allocated
\* map, in memory and in the file, equal their values before the call.
C5_FailedRegisterLeavesNoTrace ==
    [][(last'.op = "register_project" /\ last'.outcome # "ok") =>
         /\ PostProjects = PreProjects
         /\ PostAllocated = PreAllocated
         /\ Load(disk').projects = Load(disk).projects
         /\ Load(disk').allocated = Load(disk).allocated]_vars

NoOrphan(allocated, projects) ==
    \A k \in DOMAIN allocated :
        /\ allocated[k] \in DOMAIN projects
        /\ \E kind \in Kinds : PortKey(PortOf(projects[allocated[k]], kind)) = k

\* C6: in every reachable state every value of the allocated map names a
\* project that exists and has a service whose port is the entry's key, in
\* the file and in the handle's memory.
C6_NoOrphanAllocation ==
    /\ NoOrphan(Load(disk).allocated, Load(disk).projects)
    /\ \A h \in Handles :
           NoOrphan(RegistryOf(pm[h]).allocated, RegistryOf(reg[h]).projects)

\* C7: every key of every allocated map is a port of exactly one of the two
\* ranges and not in that range's reserved set; every port allocate_ports
\* returns for a kind lies within that kind's range.
C7_KeysInRange ==
    /\ DOMAIN Load(disk).allocated \subseteq FeKeys \cup BeKeys
    /\ \A h \in Handles :
           /\ DOMAIN pm[h].doc.allocated \subseteq FeKeys \cup BeKeys
           /\ DOMAIN reg[h].doc.allocated \subseteq FeKeys \cup BeKeys
    /\ (last.alloc.called /\ last.alloc.ok) =>
           /\ last.alloc.need_frontend => last.alloc.frontend \in FeRange
           /\ last.alloc.need_backend => last.alloc.backend \in BeRange

\* ports of both ranges are allocated, in memory and in the file
C7_Witness ==
    /\ last.alloc.called /\ last.alloc.ok
    /\ last.alloc.frontend # NoPort /\ last.alloc.backend # NoPort
    /\ DOMAIN pm[last.h].doc.allocated \cap FeKeys # {}
    /\ DOMAIN Load(disk).allocated \cap BeKeys # {}

\* C8: every port allocate_ports returns was absent from the allocated map
\* immediately before it was recorded, and no existing entry changes owner.
C8_NeverReturnsAllocated ==
    [][last'.op = "allocate_ports" =>
         LET A == last'.alloc
         IN /\ A.frontend # NoPort => PortKey(A.frontend) \notin DOMAIN PreAllocated
            /\ A.backend # NoPort =>
                   /\ PortKey(A.backend) \notin DOMAIN PreAllocated
                   /\ A.backend # A.frontend
            /\ \A k \in DOMAIN PreAllocated :
                   k \in DOMAIN PostAllocated /\ PostAllocated[k] = PreAllocated[k]]_vars

\* a call returned ports while another project's entries were in the map
C8_Witness ==
    /\ last.op = "allocate_ports" /\ last.alloc.ok
    /\ last.alloc.frontend # NoPort /\ last.alloc.backend # NoPort
    /\ \E k \in DOMAIN pm[last.h].doc.allocated :
           pm[last.h].doc.allocated[k] # last.name

\* C9: a failing allocate_ports call removes every provisionally added port,
\* raises PortExhausted and leaves the file as it was: nothing is written.
C9_FailurePersistsNothing ==
    [][(last'.op = "allocate_ports" /\ ~last'.alloc.ok) =>
         /\ last'.outcome = "PortExhausted"
         /\ last'.writes = <<>>
         /\ disk' = disk
         /\ \A p \in last'.alloc.allocated_ports :
                PortKey(p) \notin DOMAIN PostAllocated]_vars

\* a frontend port had been recorded when the backend range was exhausted,
\* and a registry file exists
C9_Witness ==
    /\ last.op = "allocate_ports" /\ last.outcome = "PortExhausted"
    /\ last.alloc.allocated_ports # {}
    /\ disk.exists

\* C10: the allocated map after an allocate_ports call, successful or rolled
\* back, differs from the map before by at most one added frontend-range port
\* when need_frontend and one added backend-range port when need_backend.
C10_Frame ==
    [][last'.op = "allocate_ports" =>
         LET added == DOMAIN PostAllocated \ DOMAIN PreAllocated
         IN /\ \A k \in DOMAIN PreAllocated :
                   k \in DOMAIN PostAllocated /\ PostAllocated[k] = PreAllocated[k]
            /\ added \subseteq FeKeys \cup BeKeys
            /\ Cardinality(added \cap FeKeys)
                   <= (IF last'.alloc.need_frontend THEN 1 ELSE 0)
            /\ Cardinality(added \cap BeKeys)
                   <= (IF last'.alloc.need_backend THEN 1 ELSE 0)
            /\ \A k \in added : PostAllocated[k] = last'.name]_vars

\* a call asking for a frontend port only succeeded on a map that already
\* held entries of both ranges
C10_Witness ==
    /\ last.op = "allocate_ports" /\ last.alloc.ok
    /\ last.alloc.need_frontend /\ ~last.alloc.need_backend
    /\ Cardinality(DOMAIN pm[last.h].doc.allocated \cap FeKeys) >= 2
    /\ DOMAIN pm[last.h].doc.allocated \cap BeKeys # {}

\* the keys of a map whose value is a given project name
OwnedBy(allocated, name) == {k \in DOMAIN allocated : allocated[k] = name}

C12_ReleaseExact ==
    [][last'.op = "release_ports" =>
         LET removed == OwnedBy(PreAllocated, last'.name)
         IN /\ DOMAIN PostAllocated = DOMAIN PreAllocated \ removed
            /\ \A k \in DOMAIN PostAllocated : PostAllocated[k] = PreAllocated[k]
            /\ {PortKey(p) : p \in last'.released} = removed
            /\ Cardinality(last'.released) = Cardinality(removed)
            /\ (/\ last'.follows /\ last.alloc.ok
                /\ last.alloc.need_frontend /\ last.alloc.need_backend
                /\ OwnedBy(last.before, last.name) = {})
                   => Cardinality(last'.released) = 2
            /\ removed = {} => (disk' = disk /\ last'.writes = <<>>)
            /\ removed # {} => (/\ Len(last'.writes) = 1
                                /\ disk' = File(last'.writes[1])
                                /\ Load(disk').allocated = PostAllocated)]_vars

\* a release freed the two ports of a project and kept another project's
\* entries
C12_Witness ==
    /\ last.op = "release_ports"
    /\ Cardinality(last.released) = 2
    /\ last.writes # <<>>
    /\ pm[last.h].doc.allocated # EmptyMap

\* every entry of `before` not owned by name is in `after` with its value
OthersUnchanged(before, after, name) ==
    /\ \A k \in DOMAIN before \ OwnedBy(before, name) :
           k \in DOMAIN after /\ after[k] = before[k]
    /\ \A k \in DOMAIN after : k \in DOMAIN before /\ after[k] = before[k]

\* C13: remove_project(name) with release_ports=true removes the project
\* (get_project(name) is then None) and releases exactly the ports it owned:
\* afterwards, in memory and in the persisted document, no allocated entry
\* has value name, and every allocated entry of every other project is
\* unchanged.
C13_RemoveReleases ==
    [][(/\ last'.op = "remove_project" /\ last'.outcome = "ok"
        /\ last'.release_ports) =>
         /\ last'.name \notin DOMAIN PostProjects
         /\ OwnedBy(PostAllocated, last'.name) = {}
         /\ OthersUnchanged(PreAllocated, PostAllocated, last'.name)
         /\ OwnedBy(Load(disk').allocated, last'.name) = {}
         /\ OthersUnchanged(Load(disk).allocated, Load(disk').allocated,
                            last'.name)]_vars

\* the part of C13 about the copies in memory
C13_RemoveReleasesInMemory ==
    [][(/\ last'.op = "remove_project" /\ last'.outcome = "ok"
        /\ last'.release_ports) =>
         /\ last'.name \notin DOMAIN PostProjects
         /\ OwnedBy(PostAllocated, last'.name) = {}
         /\ OthersUnchanged(PreAllocated, PostAllocated, last'.name)]_vars

\* the smallest port of a set, NoPort for the empty set
Least(S) == IF S = {} THEN NoPort ELSE CHOOSE p \in S : \A q \in S : p <= q

\* the ports of a range that are outside a reserved set, are no key of the
\* map, and on which the probe does not connect
Qualifying(range, reserved, allocated, busy) ==
    {p \in range : /\ p \notin reserved
                   /\ PortKey(p) \notin DOMAIN allocated
                   /\ p \notin busy}

\* what the searches of the last call returned: allocate_ports appends each
\* port found to allocated_ports, also when it raises afterwards
FrontendFound ==
    IF last.op = "allocate_ports"
    THEN Least(last.alloc.allocated_ports \cap FeRange)
    ELSE last.alloc.frontend
BackendFound ==
    IF last.op = "allocate_ports"
    THEN Least(last.alloc.allocated_ports \cap BeRange)
    ELSE last.alloc.backend

\* the frontend search of the last call ran on the map `before`; the backend
\* search of an allocate_ports call on that map with the frontend port added
MapAtBackendSearch ==
    IF FrontendFound # NoPort
    THEN Put(last.before, PortKey(FrontendFound), last.name)
    ELSE last.before

\* the last call searched the frontend range / the backend range
SearchedFrontend ==
    /\ last.op \in {"find_available_port", "allocate_ports"}
    /\ last.alloc.need_frontend
SearchedBackend ==
    /\ last.op \in {"find_available_port", "allocate_ports"}
    /\ last.alloc.need_backend
    /\ last.alloc.need_frontend => FrontendFound # NoPort

\* the searches of the last call returned the smallest port qualifying with
\* the given reserved sets, and allocate_ports raised PortExhausted exactly
\* when one of its searches had no qualifying port
SearchReturnsLeast(fe_reserved, be_reserved) ==
    LET fe == Qualifying(FeRange, fe_reserved, last.before, last.alloc.busy)
        be == Qualifying(BeRange, be_reserved, MapAtBackendSearch, last.alloc.busy)
    IN /\ SearchedFrontend => FrontendFound = Least(fe)
       /\ SearchedBackend => BackendFound = Least(be)
       /\ last.op = "allocate_ports" =>
              (last.outcome = "PortExhausted"
                  <=> \/ SearchedFrontend /\ fe = {}
                      \/ SearchedBackend /\ be = {})

\* C14: the port search for a range returns the smallest port p with
\* start <= p <= end such that p is not in that range's reserved set, p is
\* not a key of allocated, and the live probe of p does not connect; it
\* returns 'no port' (and allocate raises PortExhausted) only when no port of
\* the range satisfies all of these conditions.
C14_SearchOwnReserved == SearchReturnsLeast(FeReserved, BeReserved)

\* C14 (amended): the port search for a range returns the smallest port p
\* with start <= p <= end such that p is in neither range's reserved set, p
\* is not a key of allocated, and the live probe of p does not connect; it
\* returns 'no port' (and allocate raises PortExhausted) only when no port of
\* the range satisfies all of these conditions.
C14_SearchEitherReserved ==
    SearchReturnsLeast(FeReserved \cup BeReserved, FeReserved \cup BeReserved)

\* a frontend search passed over a port that only the backend range's list
\* reserves, and returned a greater one
C14_Witness ==
    /\ SearchedFrontend
    /\ FrontendFound # NoPort
    /\ \E p \in FeRange : /\ p < FrontendFound
                          /\ p \in BeReserved /\ p \notin FeReserved
                          /\ PortKey(p) \notin DOMAIN last.before
                          /\ p \notin last.alloc.busy

\* a successful register_project call that auto-allocated and stored both a
\* frontend and a backend service for its project
RegisteredBoth(call, projects) ==
    /\ call.op = "register_project" /\ call.outcome = "ok"
    /\ call.alloc.called
    /\ call.alloc.need_frontend /\ call.alloc.need_backend
    /\ call.name \in DOMAIN projects
    /\ projects[call.name].frontend.present
    /\ projects[call.name].backend.present

\* C15: registering two projects in succession through one Project Directory
\* handle, each with a frontend and a backend command, gives the second
\* project in each range the lowest port still free after the first
\* registration, and none of its ports equals a port of the first project;
\* every registered service with a command has a non-null port.
C15_SecondGetsNextFree ==
    [][(/\ RegisteredBoth(last, PreProjects)
        /\ RegisteredBoth(last', PostProjects)
        /\ last'.h = last.h) =>
         LET reserved == FeReserved \cup BeReserved
             busy == last'.alloc.busy
             first == PostProjects[last.name]
             second == PostProjects[last'.name]
         IN /\ second.frontend.port
                   = Least(Qualifying(FeRange, reserved, PreAllocated, busy))
            /\ second.backend.port
                   = Least(Qualifying(BeRange, reserved, PreAllocated, busy))
            /\ {second.frontend.port, second.backend.port}
                   \cap {first.frontend.port, first.backend.port} = {}
            /\ \A pr \in {first, second}, k \in Kinds : PortOf(pr, k) # NoPort
            /\ first.frontend.port = last.alloc.frontend
            /\ first.backend.port = last.alloc.backend]_vars

\* two projects registered one after the other hold four different ports
C15_Witness ==
    /\ last.op = "register_project" /\ last.outcome = "ok"
    /\ LET projects == RegistryOf(reg[last.h]).projects
       IN /\ Cardinality(DOMAIN projects) = 2
          /\ \A n \in DOMAIN projects, k \in Kinds :
                 PortOf(projects[n], k) # NoPort
          /\ \A n \in DOMAIN projects \ {last.name} :
                 /\ projects[n].frontend.port < projects[last.name].frontend.port
                 /\ projects[n].backend.port < projects[last.name].backend.port

\* every entry of the map `before`, except those under the keys in `own`, is
\* in the map `after` with the same value
Kept(before, after, own) ==
    \A k \in DOMAIN before \ own : k \in DOMAIN after /\ after[k] = before[k]

\* C16: every mutating operation (register, update, remove, allocate,
\* release) works by loading the entire aggregate from the file, mutating it
\* and saving it, so it acts on the document as currently persisted: a
\* change that another handle, or the other component's copy of the
\* registry, persisted to the same file before the operation began is still
\* present in the document the operation writes.
\* (stated for the document the file holds when the operation returns; the
\* operation's own project and its own allocated entries are excepted)
C16_WritesActOnPersisted ==
    [][last'.writes # <<>> =>
         /\ Kept(Load(disk).projects, Load(disk').projects, {last'.name})
         /\ Kept(Load(disk).allocated, Load(disk').allocated,
                 OwnedBy(Load(disk).allocated, last'.name))]_vars

\* position in the log of a thread's search / record of a kind (0: none)
StepIndex(t, step, kind) ==
    IF \E i \in 1..Len(log) : log[i].t = t /\ log[i].step = step /\ log[i].kind = kind
    THEN CHOOSE i \in 1..Len(log) :
             log[i].t = t /\ log[i].step = step /\ log[i].kind = kind
    ELSE 0

ThreadPort(t, kind) == IF kind = "frontend" THEN thr[t].frontend ELSE thr[t].backend

\* both calls have returned, with the same port of a kind
BothReturned(t, u, kind) ==
    /\ t # u
    /\ thr[t].pc = "returned" /\ thr[u].pc = "returned"
    /\ ThreadPort(t, kind) # NoPort
    /\ ThreadPort(t, kind) = ThreadPort(u, kind)

\* C17: two allocate_ports calls running concurrently on the same registry
\* without a lock can race: there is an interleaving in which both calls
\* pass the availability check for the same free port before either records
\* it, and both return that port.  (The interleaving is C17_Witness; the
\* invariant says that this is the only way two calls return the same port:
\* each passed its check before the other recorded, and the map then holds
\* the port once, for the call that recorded last.)
C17_SamePortOnlyByRace ==
    \A t \in Threads, u \in Threads, kind \in Kinds :
        BothReturned(t, u, kind) =>
            /\ StepIndex(t, "search", kind) < StepIndex(u, "record", kind)
            /\ StepIndex(u, "search", kind) < StepIndex(t, "record", kind)
            /\ pm[Shared].doc.allocated[PortKey(ThreadPort(t, kind))]
                   = (IF StepIndex(t, "record", kind) > StepIndex(u, "record", kind)
                      THEN thr[t].name ELSE thr[u].name)

\* both calls passed the check for the same free frontend port before either
\* recorded it, and both returned it, for two different projects
C17_Witness ==
    /\ BothReturned("t1", "t2", "frontend")
    /\ thr["t1"].name # thr["t2"].name
    /\ StepIndex("t1", "search", "frontend") < StepIndex("t2", "record", "frontend")
    /\ StepIndex("t2", "search", "frontend") < StepIndex("t1", "record", "frontend")

\* C18: every write that replaces an existing registry file is preceded by a
\* backup of that file: whenever any operation (register, update, remove,
\* port allocation, port release) changes the content of an existing
\* registry file, the content it had just before the write is present as a
\* file in the backup directory immediately after the write.
C18_BackupBeforeReplace ==
    [][(disk.exists /\ disk' # disk) =>
         \E n \in DOMAIN backups' : backups'[n] = disk.doc]_vars

\* the KeepBackups greatest names of a set of names
Greatest(names) ==
    {n \in names : Cardinality({m \in names : NameLess(n, m)}) < KeepBackups}

\* C19: after any sequence of saves, the backup directory holds at most 10
\* backup files, and they are the ones with the 10 greatest timestamp names
\* among the backups created so far; a backup is deleted only when more than
\* 10 exist and only the oldest-named ones are deleted.
C19_KeepsTenGreatest ==
    [][LET present == DOMAIN backups \cup (created' \ created)
           deleted == present \ DOMAIN backups'
       IN /\ Cardinality(DOMAIN backups') <= KeepBackups
          /\ DOMAIN backups' = Greatest(created')
          /\ deleted # {} =>
                 /\ Cardinality(present) > KeepBackups
                 /\ \A n \in deleted, m \in DOMAIN backups' : NameLess(n, m)]_vars

\* more than ten backups have been created, ten are left, and the one with
\* the smallest name is gone
C19_Witness ==
    /\ Cardinality(created) > KeepBackups
    /\ Cardinality(DOMAIN backups) = KeepBackups
    /\ \E n \in created \ DOMAIN backups :
           \A m \in DOMAIN backups : NameLess(n, m)

\* the operations that pass an actor tag to save(modified_by=...)
TaggedOps == {"register_project", "update_project", "remove_project"}

\* C20: every save recomputes the metadata: after every write of the
\* registry file by any operation, the persisted metadata.total_projects
\* equals the number of entries in the persisted projects map and
\* metadata.last_modified_by is the actor tag of the operation that
\* performed that write.
C20_MetadataRecomputed ==
    [][\A i \in 1..Len(last'.writes) :
          LET w == last'.writes[i]
          IN /\ w.metadata.total_projects = Cardinality(DOMAIN w.projects)
             /\ last'.op \in TaggedOps
                    => w.metadata.last_modified_by = last'.op]_vars

\* the part of C20 about the writes of ProjectRegistry.save, the last write
\* of each project directory operation
C20_DirectorySaveRecomputes ==
    [][(last'.op \in TaggedOps /\ last'.writes # <<>> /\ last'.outcome = "ok") =>
          LET w == last'.writes[Len(last'.writes)]
          IN /\ w.metadata.total_projects = Cardinality(DOMAIN w.projects)
             /\ w.metadata.last_modified_by = last'.op
             /\ disk' = File(w)]_vars

\* the document that a save of the registry R writes, and the one written
\* by a save of what a load of that file gives
Saved(R) == File(R)
SavedAgain(R) == File(Load(Saved(R)))

\* C21: serialization round-trips: for every registry R reachable through
\* register_project, update_project and remove_project that a save can
\* write, the file written by save(R) can be loaded, and saving what was
\* loaded writes the same document: every project field (display_name,
\* absent services, null ports) is the same after a save and a load.
C21_RoundTrip ==
    \A h \in Handles :
        (reg[h].loaded /\ ~ToDictRaises(reg[h].doc)) =>
            /\ ~LoadRaises(Saved(reg[h].doc))
            /\ SavedAgain(reg[h].doc) = Saved(reg[h].doc)

\* C22: a project's name is immutable after creation: after any sequence of
\* operations, update_project with any patch included, every project stored
\* under key k in the projects map has name k.
C22_NameIsKey ==
    \A h \in Handles :
        reg[h].loaded =>
            \A k \in DOMAIN reg[h].doc.projects : reg[h].doc.projects[k].name = k

\* the outcomes of a failed name precondition
NameErrors == {"ProjectExists", "ProjectNotFound"}

\* C23: register_project on a name that is a key of the handle's projects
\* map raises ProjectExists, update_project and remove_project on a name
\* that is not a key raise ProjectNotFound, and they raise these in no other
\* case; a call that so fails leaves the projects, the allocated map, the
\* registry file and the backups as they were, and allocates and releases
\* no port.
C23_FailedPreconditionChangesNothing ==
    [][(last'.op \in TaggedOps) =>
          /\ last'.op = "register_project" =>
                 (last'.outcome = "ProjectExists" <=> last'.name \in DOMAIN PreProjects)
          /\ last'.op # "register_project" =>
                 (last'.outcome = "ProjectNotFound" <=> last'.name \notin DOMAIN PreProjects)
          /\ last'.outcome \in NameErrors =>
                 /\ disk' = disk
                 /\ backups' = backups
                 /\ PostProjects = PreProjects
                 /\ PostAllocated = PreAllocated
                 /\ RegistryAt(reg'[last'.h], disk').allocated
                        = RegistryOf(reg[last'.h]).allocated
                 /\ ~last'.alloc.called
                 /\ last'.released = {}
                 /\ last'.writes = <<>>]_vars

\* register_project has raised ProjectExists for a project that holds
\* ports, while the file and the allocated map are not empty
C23_Witness ==
    /\ last.op = "register_project" /\ last.outcome = "ProjectExists"
    /\ disk.exists
    /\ pm[last.h].loaded /\ pm[last.h].doc.allocated # EmptyMap
    /\ reg[last.h].doc.projects[last.name].frontend.port # NoPort

\* the values of the dataclass fields of a project
FieldsOf(project) ==
    <<project.name, project.display_name, project.frontend, project.backend,
      project.tags>>

\* C28: update_project applies only patch keys that are fields of the
\* project: a patch of unknown keys changes no field of the project, and
\* every update_project call of an existing project leaves all other
\* projects and the allocation map, in memory and in the file, unchanged and
\* writes the file with metadata.last_modified_by = "update_project".
C28_UpdateAppliesOnlyFields ==
    [][(last'.op = "update_project" /\ last'.name \in DOMAIN PreProjects) =>
          /\ last'.patch \notin ProjectFields =>
                 FieldsOf(PostProjects[last'.name]) = FieldsOf(PreProjects[last'.name])
          /\ DOMAIN PostProjects = DOMAIN PreProjects
          /\ \A n \in DOMAIN PreProjects \ {last'.name} :
                 PostProjects[n] = PreProjects[n]
          /\ reg'[last'.h].doc.allocated = RegistryOf(reg[last'.h]).allocated
          /\ disk'.exists /\ disk'.doc # EmptyText
          /\ disk'.doc.metadata.last_modified_by = "update_project"
          /\ (disk.exists /\ disk.doc # EmptyText) =>
                 disk'.doc.allocated = disk.doc.allocated]_vars

\* the part of C28 about the handle's copy of the registry
C28_UpdateInMemory ==
    [][(last'.op = "update_project" /\ last'.name \in DOMAIN PreProjects) =>
          /\ last'.patch \notin ProjectFields =>
                 FieldsOf(PostProjects[last'.name]) = FieldsOf(PreProjects[last'.name])
          /\ DOMAIN PostProjects = DOMAIN PreProjects
          /\ \A n \in DOMAIN PreProjects \ {last'.name} :
                 PostProjects[n] = PreProjects[n]
          /\ reg'[last'.h].doc.allocated = RegistryOf(reg[last'.h]).allocated
          /\ reg'[last'.h].doc.metadata.last_modified_by = "update_project"]_vars

\* C29: no project whose name the pattern ^[a-z][a-z0-9-]*$ rejects is ever
\* present in the registry, in a handle's copy or in the file.
C29_OnlyMatchingNames ==
    /\ \A h \in Handles :
           reg[h].loaded =>
               \A k \in DOMAIN reg[h].doc.projects :
                   NameMatches(reg[h].doc.projects[k].name)
    /\ (disk.exists /\ disk.doc # EmptyText) =>
           \A k \in DOMAIN disk.doc.projects :
               NameMatches(disk.doc.projects[k].name)

\* the part of C29 about creation: register_project that gets as far as
\* creating the project succeeds exactly when re.match accepts the name
C29_CreationChecksName ==
    [][(last'.op = "register_project"
           /\ last'.outcome \in {"ok", "ValueError", "TypeError"}) =>
          (last'.outcome # "ValueError" <=> NameMatches(last'.name))]_vars

\* C29 read with the pattern matching the whole name: creation accepts only
\* a lowercase letter followed by lowercase letters, digits and hyphens
C29_CreationAcceptsWholeMatches ==
    [][(last'.op = "register_project" /\ last'.outcome = "ok") =>
          WholeMatch(NameChars(last'.name))]_vars

\* the projects that list_projects(filter_tags=T) is to return
WithSomeTag(projects, T) ==
    {k \in DOMAIN projects : projects[k].tags \cap T # {}}

\* C30: list_projects() returns every registered project, and
\* list_projects(filter_tags=T) returns exactly the projects whose tag set
\* has at least one tag in T.
C30_ListFilters ==
    [][(last'.op = "list_projects") =>
          res'.projects = IF res'.filter_tags.given
                          THEN WithSomeTag(PreProjects, res'.filter_tags.tags)
                          ELSE DOMAIN PreProjects]_vars

\* C30, amended: list_projects() and list_projects(filter_tags=[]) return
\* every registered project, and list_projects(filter_tags=T) with a
\* non-empty T returns exactly the projects whose tag set has at least one
\* tag in T.
C30_ListFiltersNonEmpty ==
    [][(last'.op = "list_projects") =>
          res'.projects = IF res'.filter_tags.given /\ res'.filter_tags.tags # {}
                          THEN WithSomeTag(PreProjects, res'.filter_tags.tags)
                          ELSE DOMAIN PreProjects]_vars

\* a filter of two tags has returned one of two registered projects: the one
\* returned has only one of the tags, the other has neither
C30_Witness ==
    /\ last.op = "list_projects"
    /\ res.filter_tags = Filter({"api", "web"})
    /\ Cardinality(DOMAIN reg[last.h].doc.projects) = 2
    /\ \E k \in res.projects : reg[last.h].doc.projects[k].tags = {"local", "api"}
    /\ \E k \in DOMAIN reg[last.h].doc.projects : k \notin res.projects

\* the operations of the status layer
ControlOps ==
    {"get_project_status", "get_all_status", "start_project", "stop_project",
     "restart_project"}

\* C24: the status layer never writes to the registry: get_project_status,
\* get_all_status, start_project, stop_project and restart_project, whatever
\* the supervisor reports and whether they succeed, fail or raise, leave the
\* projects map, the allocated map, the registry file and the backups
\* unchanged.
C24_StatusLayerNeverWrites ==
    [][(last'.op \in ControlOps) =>
          /\ disk' = disk
          /\ backups' = backups
          /\ PostProjects = PreProjects
          /\ PostAllocated = PreAllocated
          /\ RegistryAt(reg'[last'.h], disk').allocated
                 = RegistryOf(reg[last'.h]).allocated]_vars

\* start_project has failed for the frontend and started the backend of a
\* project that is in the registry file
C24_Witness ==
    /\ last.op = "start_project" /\ res.found /\ ~res.success
    /\ "frontend" \in DOMAIN res.errors
    /\ pm2[<<"a", "backend">>] = "online" /\ res.backend = "online"
    /\ disk.exists /\ "a" \in DOMAIN disk.doc.projects

\* the statuses of the services that have one
Present(frontend, backend) == {frontend, backend} \ {"none"}

\* the overall status as stated: by cases on the set of the statuses
StatedOverall(S) ==
    CASE S = {} -> "stopped"
      [] S = {"online"} -> "running"
      [] S # {} /\ S \subseteq {"stopped", "not_started"} -> "stopped"
      [] "errored" \in S -> "error"
      [] "online" \in S /\ S \cap {"stopped", "not_started"} # {}
             /\ "errored" \notin S -> "partial"

\* the statuses of a service, and "none" for a service without one
ServiceStatuses == {"none", "online", "stopped", "errored", "not_started"}

\* C25: the overall status that get_project_status returns is the stated
\* function of the statuses of the project's present services: none present
\* gives stopped, all online running, all in {stopped, not_started} stopped,
\* any errored error, online mixed with stopped or not_started partial; and
\* the function gives the same for the two services exchanged.
C25_OverallIsStatedFunction ==
    /\ (res.op = "get_project_status" /\ res.found /\ ~res.raised) =>
           res.overall = StatedOverall(Present(res.frontend, res.backend))
    /\ \A x \in ServiceStatuses, y \in ServiceStatuses :
           /\ OverallStatus(StatusList(x, y)) = OverallStatus(StatusList(y, x))
           /\ OverallStatus(StatusList(x, y)) = StatedOverall(Present(x, y))

\* a status query has found the frontend errored and the backend online and
\* has given error
C25_Witness ==
    /\ res.op = "get_project_status" /\ res.found /\ ~res.raised
    /\ res.frontend = "errored" /\ res.backend = "online"
    /\ res.overall = "error"

\* a supervisor failure: a command that timed out or found no tool, or a
\* start or stop command that exited non-zero without "not found"
Faulty(r) == Raises(r.exit) \/ (r.cmd \in {"start", "stop"} /\ r.exit = "nonzero")
\* the services for which a command of the last call failed
FailedServices ==
    {s \in Services : \E i \in 1..Len(res.ran[s]) : Faulty(res.ran[s][i])}
\* the first failure of the commands run for service s
FirstFault(s) ==
    LET i == CHOOSE i \in 1..Len(res.ran[s]) :
                 /\ Faulty(res.ran[s][i])
                 /\ \A j \in 1..(i - 1) : ~Faulty(res.ran[s][j])
    IN res.ran[s][i].exit
\* the last call was for a project that has both services
BothServices ==
    /\ res.found /\ reg[last.h].loaded
    /\ res.name \in DOMAIN reg[last.h].doc.projects
    /\ reg[last.h].doc.projects[res.name].frontend.present
    /\ reg[last.h].doc.projects[res.name].backend.present
\* the backend's start was gone about, its stop command was run
BackendAttempted ==
    IF res.op = "start_project" THEN res.ran.backend # <<>>
    ELSE \E i \in 1..Len(res.ran.backend) : res.ran.backend[i].cmd = "stop"

\* C26: start_project and stop_project of a project with both services
\* attempt the backend whatever happened to the frontend (non-zero exit,
\* timeout, tool missing), return one result that lists every service that
\* failed, and that result has success=false exactly when a service failed.
C26_BothAttempted ==
    (res.op \in {"start_project", "stop_project"} /\ last.op = res.op
        /\ BothServices) =>
        /\ ~res.raised
        /\ BackendAttempted
        /\ DOMAIN res.errors = FailedServices
        /\ res.success <=> FailedServices = {}

\* the part of C26 about start_project
C26_StartAttemptsBoth ==
    (res.op = "start_project" /\ last.op = res.op /\ BothServices) =>
        /\ ~res.raised
        /\ BackendAttempted
        /\ DOMAIN res.errors = FailedServices
        /\ res.success <=> FailedServices = {}

\* C27: when the supervisor tool is missing, a command times out or a
\* command exits non-zero, start_project, stop_project and restart_project
\* raise nothing and return a result with success=false whose message has
\* the diagnostic text of the failure.
C27_ErrorsAreReturned ==
    (res.op \in {"start_project", "stop_project", "restart_project"}
        /\ last.op = res.op /\ res.found) =>
        /\ ~res.raised
        /\ FailedServices # {} =>
               /\ ~res.success
               /\ \A s \in FailedServices :
                      /\ s \in DOMAIN res.errors
                      /\ res.errors[s] = Diagnostic(FirstFault(s))

\* the part of C27 about start_project
C27_StartReturnsErrors ==
    (res.op = "start_project" /\ last.op = res.op /\ res.found) =>
        /\ ~res.raised
        /\ FailedServices # {} =>
               /\ ~res.success
               /\ \A s \in FailedServices :
                      /\ s \in DOMAIN res.errors
                      /\ res.errors[s] = Diagnostic(FirstFault(s))

\* the last call was an allocate_ports for both kinds that returned
AllocatedBoth ==
    /\ last.op = "allocate_ports"
    /\ last.alloc.need_frontend
    /\ last.alloc.need_backend
    /\ last.alloc.ok

\* C31: an allocate_ports call for both kinds returns a backend port that
\* differs from the frontend port it returns, because the backend search runs
\* on the map that already holds the frontend port: the backend port is the
\* least port of the backend range that is not reserved, is no key of that
\* map and is not occupied, also when the two ranges overlap
C31_FrontendRecordedBeforeBackendSearch ==
    AllocatedBoth =>
        /\ last.alloc.frontend # last.alloc.backend
        /\ last.alloc.backend
             = Least(Qualifying(ranges.be_start..ranges.be_end,
                                FeReserved \cup BeReserved,
                                Put(last.before, PortKey(last.alloc.frontend), last.name),
                                last.alloc.busy))

\* the ranges overlap and the backend search, had it run on the map as it was
\* before the call, would have returned the frontend port
C31_Witness ==
    /\ AllocatedBoth
    /\ ranges = OverlapRanges
    /\ FindAvailablePort(ranges.be_start, ranges.be_end, last.before, last.alloc.busy)
         = last.alloc.frontend

\* the port allocate_ports returned for a kind in the last call
PortReturned(call, kind) ==
    IF kind = "frontend" THEN call.alloc.frontend ELSE call.alloc.backend

\* C32: a register_project that allocates ports and returns has allocated a
\* port of a kind exactly when the project it created has a service of that
\* kind; in particular an empty command gives no service and no port.
C32_PortExactlyForServices ==
    [][(/\ last'.op = "register_project"
        /\ last'.outcome = "ok"
        /\ last'.alloc.called) =>
         \A kind \in Kinds :
             (PortReturned(last', kind) # NoPort)
                 <=> (IF kind = "frontend"
                      THEN PostProjects[last'.name].frontend.present
                      ELSE PostProjects[last'.name].backend.present)]_vars

\* C33: the display name a handle holds for a project changes only in an
\* update_project call for that project whose patch names display_name: no
\* other call, no save, load or reload changes it.
C33_DisplayNameOnlyByPatch ==
    [][\A n \in ValidNames :
         (/\ n \in DOMAIN PreProjects
          /\ n \in DOMAIN PostProjects
          /\ PreProjects[n].display_name # PostProjects[n].display_name)
             => /\ last'.op = "update_project"
                /\ last'.name = n
                /\ last'.patch = "display_name"]_vars

\* the status the claim derives from the state the supervisor holds for a job
StatedStatus(state) ==
    CASE state = "absent" -> "not_started"
      [] state = "online" -> "online"
      [] state = "stopped" -> "stopped"
      [] OTHER -> "errored"

\* the status in a result for a service
StatusIn(r, s) == IF s = "frontend" THEN r.frontend ELSE r.backend

\* C34: every service status that get_project_status returns is the one
\* derived from the supervisor's job of that name: not_started exactly when
\* there is no such job, online and stopped for those states, errored for
\* every other state; a failure to obtain the job list gives no not_started.
C34_StatusFromJobList ==
    [][(/\ res'.op = "get_project_status"
        /\ res'.found
        /\ ~res'.raised) =>
         \A s \in Services :
             StatusIn(res', s) # "none"
                 => StatusIn(res', s) = StatedStatus(pm2'[<<res'.name, s>>])]_vars

\* the project that the status in res is about, as the controller's handle
\* holds it, and its service s
Reconciled == reg[last.h].doc.projects[res.name]
ServiceOf(project, s) == IF s = "frontend" THEN project.frontend ELSE project.backend
\* the services of that project that are present and enabled
Partaking == {s \in Services : LET c == ServiceOf(Reconciled, s)
                               IN c.present /\ c.enabled}
\* the last call was a get_project_status that returned a status
StatusReturned ==
    /\ last.op = "get_project_status"
    /\ res.op = "get_project_status"
    /\ res.found
    /\ ~res.raised

\* C35: in the result of get_project_status, a service that is absent or not
\* enabled was not queried at the supervisor and has no status; the overall
\* status is running when there are partaking services and all of them are
\* online, and stopped when no service partakes.
C35_OnlyEnabledServicesPartake ==
    StatusReturned =>
        /\ \A s \in Services \ Partaking :
               res.ran[s] = <<>> /\ StatusIn(res, s) = "none"
        /\ \A s \in Partaking : StatusIn(res, s) # "none"
        /\ Partaking = {} => res.overall = "stopped"
        /\ (Partaking # {} /\ \A s \in Partaking : StatusIn(res, s) = "online")
               => res.overall = "running"

\* a disabled frontend whose job is online at the supervisor in some other
\* state than the backend's, which is online: the project is running
C35_Witness ==
    /\ StatusReturned
    /\ Reconciled.frontend.present
    /\ ~Reconciled.frontend.enabled
    /\ pm2[<<res.name, "frontend">>] = "errored"
    /\ Partaking = {"backend"}
    /\ res.backend = "online"
    /\ res.overall = "running"

\* the checks of the claim, in its order: the range of the kind, reserved,
\* a key of the allocated map, occupied; the first that fails, "" for none
FirstFailingCheck(allocated, port, port_type, busy) ==
    IF port_type = "frontend" /\ port \notin FeStart..FeEnd
    THEN "outside frontend range"
    ELSE IF port_type = "backend" /\ port \notin ranges.be_start..ranges.be_end
         THEN "outside backend range"
    ELSE IF port \in FeReserved \cup BeReserved THEN "reserved"
    ELSE IF PortKey(port) \in DOMAIN allocated THEN "allocated"
    ELSE IF port \in busy THEN "in use"
    ELSE ""

\* C36: validate_port returns ok exactly when none of the checks fails, its
\* reason otherwise names the first failing check, the port that the search
\* of a range returns validates ok for that range, and the call changes
\* neither the file nor a map.
C36_ValidateAgreesWithSearch ==
    [][last'.op = "validate_port" =>
         LET failing == FirstFailingCheck(PreAllocated, res'.port,
                                          res'.port_type, res'.busy)
         IN /\ res'.success <=> failing = ""
            /\ ~res'.success => res'.diagnostic = failing
            /\ PostAllocated = PreAllocated
            /\ disk' = disk
            /\ reg' = reg]_vars

\* the ports of a kind's range that the allocator can hand out
Usable(kind) ==
    (IF kind = "frontend" THEN FeStart..FeEnd ELSE ranges.be_start..ranges.be_end)
        \ (FeReserved \cup BeReserved)

C38_UsedWithinTotal ==
    [][last'.op = "get_port_status" =>
         /\ ~res'.port_status.raised
         /\ \A s \in Services :
                /\ Cardinality(res'.port_status.used_ports[s])
                       <= res'.port_status.total[s]
                /\ res'.port_status.utilization[s] <= 1000
         /\ PostAllocated = PreAllocated
         /\ disk' = disk
         /\ reg' = reg]_vars

\* the positions in a service's command list at which cmd was run
Issued(ran, cmd) == {i \in 1..Len(ran) : ran[i].cmd = cmd}

\* C39: in a start_project call, for a service whose job is online at the
\* supervisor neither a delete nor a start command is issued, and the service
\* has no error unless a command raised; for a service whose job exists and
\* is not online every start command comes after a delete command.
C39_StartIsIdempotent ==
    [][(last'.op = "start_project" /\ res'.found) =>
         \A s \in Services :
             LET job == pm2[<<res'.name, s>>]
                 ran == res'.ran[s]
             IN /\ (job = "online" /\ ran # <<>>) =>
                       /\ Issued(ran, "delete") = {}
                       /\ Issued(ran, "start") = {}
                       /\ (\A i \in 1..Len(ran) : ~Raises(ran[i].exit))
                              => s \notin DOMAIN res'.errors
                /\ (job \notin {"absent", "online"}) =>
                       \A i \in Issued(ran, "start") :
                           \E j \in Issued(ran, "delete") : j < i]_vars

====
